---- MODULE Spec2Model ----
(***************************************************************************)
(* Model of the MCP SaaS core: the Composite Router (composite.py), the    *)
(* Session Registry (transport.py) and the Framed Channel (mcp_stdio.py).  *)
(* Names are sequences of one-character strings so that prefix matching,   *)
(* stripping and qualification are computed as the code computes them.     *)
(***************************************************************************)
EXTENDS Integers, Sequences, FiniteSets, TLC

(***************************************************************************)
(* Bounds and small input sets                                             *)
(***************************************************************************)
\* number of router calls started in one behaviour
MaxOps == 2
\* number of send_request calls started on the channel
MaxReq == 2
\* number of lines the subprocess writes to its stdout
MaxLines == 2
\* number of written lines the stdout pipe holds unread
StdoutCap == 1
\* number of router calls started while and after a listing is in progress
MaxRaceOps == 4
\* number of times the clock advances
MaxTicks == 2
\* number of subprocesses a channel launches
MaxStarts == 2
\* number of items a consumer pulls from the event stream
MaxPulls == 2
\* length of the tool and prompt names the prefix rules are applied to
MaxNameLen == 5
\* length of the prefixes the prefix rules are applied with
MaxPrefixLen == 2
\* length of the path of the resource URIs the prefix rules are applied to
MaxPathLen == 3

\* program constants (seconds)
SessionTimeout == 300
CacheDuration == 300
\* the clock advances in steps longer than the session timeout
TickStep == SessionTimeout + 1
\* the interval at which a mount is used when it is used regularly
UseInterval == SessionTimeout - 100

Calls == {"c1", "c2"}
Instances == {"A", "B"}
Transports == {"t1"}
Kinds == {"tool", "prompt", "resource"}

\* mount prefixes offered to mount(); "a" and "a_b" overlap
PA == <<"a">>
PAB == <<"a", "_", "b">>
Prefixes == {PA, PAB}

\* local names each instance reports for tools and prompts, and the
\* local resource URIs it reports; the second URI of B has no "://"
LocalNames(inst) ==
  IF inst = "A" THEN << <<"x">>, <<"b", "_", "x">> >> ELSE << <<"x">> >>
LocalUris(inst) ==
  IF inst = "A" THEN << <<"s", ":", "/", "/", "x">>, <<"s", ":", "/", "/", "b", "/", "x">> >>
  ELSE << <<"s", ":", "/", "/", "x">>, <<"x">> >>
LocalItems(inst, kind) == IF kind = "resource" THEN LocalUris(inst) ELSE LocalNames(inst)

\* qualified names a caller passes to call_tool / get_prompt / read_resource
CallNames == { <<"a", "_", "x">>, <<"a", "_", "b", "_", "x">>, <<"a", "x">> }
CallUris ==
  { <<"s", ":", "/", "/", "a", "/", "x">>, <<"s", ":", "/", "/", "a", "_", "b", "/", "x">>,
    <<"s", ":", "/", "/", "c", "/", "x">> }
CallInputs(kind) == IF kind = "resource" THEN CallUris ELSE CallNames

(***************************************************************************)
(* String helpers (Python str.startswith / str.removeprefix)               *)
(***************************************************************************)
StartsWith(s, p) == Len(p) <= Len(s) /\ SubSeq(s, 1, Len(p)) = p
RemovePrefix(s, p) == IF StartsWith(s, p) THEN SubSeq(s, Len(p) + 1, Len(s)) ELSE s

(***************************************************************************)
(* MountedInstance: prefix rules for tools and prompts                     *)
(***************************************************************************)
\* faulty variant: the separator is not required after the prefix
match_tool_nosep(prefix, tool_name) == StartsWith(tool_name, prefix)
match_tool(prefix, tool_name) == StartsWith(tool_name, prefix \o <<"_">>)
\* faulty variant: the prefix is removed twice
strip_tool_prefix_twice(prefix, tool_name) ==
  RemovePrefix(RemovePrefix(tool_name, prefix \o <<"_">>), prefix \o <<"_">>)
strip_tool_prefix(prefix, tool_name) == RemovePrefix(tool_name, prefix \o <<"_">>)
\* faulty variant: the separator is left out
add_tool_prefix_nosep(prefix, tool_name) == prefix \o tool_name
add_tool_prefix(prefix, tool_name) == prefix \o <<"_">> \o tool_name
match_prompt(prefix, prompt_name) == StartsWith(prompt_name, prefix \o <<"_">>)
strip_prompt_prefix(prefix, prompt_name) == RemovePrefix(prompt_name, prefix \o <<"_">>)
add_prompt_prefix(prefix, prompt_name) == prefix \o <<"_">> \o prompt_name

(***************************************************************************)
(* MountedInstance: prefix rules for resource URIs.  The pattern           *)
(* ^([^:]+://)(.*?)$ matches when the first ':' is preceded by at least    *)
(* one character and followed by "//", and what follows holds no line      *)
(* break other than one at its very end ('.' matches no line break, '$'    *)
(* matches at the end and before a final line break); the second group is  *)
(* what follows without that final line break.                             *)
(***************************************************************************)
InvalidUri == <<"!", "ValueError">>
NL == "\n"
FirstColon(uri) ==
  IF \E i \in 1..Len(uri) : uri[i] = ":"
  THEN CHOOSE i \in 1..Len(uri) : uri[i] = ":" /\ \A j \in 1..(i - 1) : uri[j] # ":"
  ELSE 0
UriRest(uri) == SubSeq(uri, FirstColon(uri) + 3, Len(uri))
EndsInNewline(s) == Len(s) >= 1 /\ s[Len(s)] = NL
DotStar(s) == \A i \in 1..Len(s) : s[i] # NL
UriMatches(uri) ==
  LET c == FirstColon(uri)
  IN /\ c >= 2 /\ Len(uri) >= c + 2 /\ uri[c + 1] = "/" /\ uri[c + 2] = "/"
     /\ \/ DotStar(UriRest(uri))
        \/ EndsInNewline(UriRest(uri)) /\ DotStar(SubSeq(UriRest(uri), 1, Len(UriRest(uri)) - 1))
UriProtocol(uri) == SubSeq(uri, 1, FirstColon(uri) + 2)
UriPath(uri) ==
  IF EndsInNewline(UriRest(uri))
  THEN SubSeq(UriRest(uri), 1, Len(UriRest(uri)) - 1)
  ELSE UriRest(uri)
_add_resource_prefix(uri, prefix) ==
  IF prefix = <<>> THEN uri
  ELSE IF ~UriMatches(uri) THEN InvalidUri
  ELSE UriProtocol(uri) \o prefix \o <<"/">> \o UriPath(uri)
_remove_resource_prefix(uri, prefix) ==
  IF prefix = <<>> THEN uri
  ELSE IF ~UriMatches(uri) THEN uri
  ELSE IF StartsWith(UriPath(uri), prefix \o <<"/">>)
       THEN UriProtocol(uri) \o SubSeq(UriPath(uri), Len(prefix) + 2, Len(UriPath(uri)))
       ELSE uri
_has_resource_prefix(uri, prefix) ==
  IF prefix = <<>> THEN FALSE
  ELSE IF ~UriMatches(uri) THEN FALSE
  ELSE StartsWith(UriPath(uri), prefix \o <<"/">>)
match_resource(prefix, resource_uri) == _has_resource_prefix(resource_uri, prefix)
strip_resource_prefix(prefix, resource_uri) == _remove_resource_prefix(resource_uri, prefix)
add_resource_prefix(prefix, resource_uri) == _add_resource_prefix(resource_uri, prefix)

\* the three routing operations differ only in the rule they apply
MatchKind(kind, prefix, name) ==
  IF kind = "tool" THEN match_tool(prefix, name)
  ELSE IF kind = "prompt" THEN match_prompt(prefix, name)
  ELSE match_resource(prefix, name)
StripKind(kind, prefix, name) ==
  IF kind = "tool" THEN strip_tool_prefix(prefix, name)
  ELSE IF kind = "prompt" THEN strip_prompt_prefix(prefix, name)
  ELSE strip_resource_prefix(prefix, name)
AddKind(kind, prefix, name) ==
  IF kind = "tool" THEN add_tool_prefix(prefix, name)
  ELSE IF kind = "prompt" THEN add_prompt_prefix(prefix, name)
  ELSE add_resource_prefix(prefix, name)

(***************************************************************************)
(* State                                                                   *)
(***************************************************************************)
VARIABLES
  mounted_instances,  \* MCPSaaSComposite.mounted_instances, in insertion order
  mobj,               \* the MountedInstance objects ever constructed
  sobj,               \* the ClientSession objects ever produced by a transport
  active_sessions,    \* MCPSaaSSessionManager.active_sessions: session id -> session
  store,              \* the external record store: session id -> record
  logs,               \* the observability sink (stream entries, oldest first)
  cache,              \* _tools_cache / _prompts_cache / _resources_cache
  cache_expiry,       \* _cache_expiry, -1 for None
  now,                \* the clock read by utcnow()
  calls,              \* the calls in progress, one per task
  nops,               \* number of calls started
  budget              \* number of calls a behaviour may start

routerVars == <<mounted_instances, mobj, sobj, active_sessions, store, logs,
                cache, cache_expiry, now, calls, nops, budget>>

(***************************************************************************)
(* Framed Channel (MCPStdioWrapper): state                                 *)
(***************************************************************************)
VARIABLES
  process,            \* self.process: 0 for None, else the running subprocess
  stdout_reader,      \* the _handle_stdout task: "none", "running" or "ended"
  stdout,             \* lines the subprocess has written and the reader has not read
  response_handlers,  \* ids with an entry in self.response_handlers
  fut,                \* the future created for each id
  message_queue,      \* self.message_queue
  req,                \* the send_request calls in progress, one per caller task
  nreq,               \* number of correlation ids generated
  nlines,             \* number of lines the subprocess has written
  procs,              \* the subprocesses launched so far, by handle
  life,               \* the stop() calls and connect_session scopes in progress
  launches,           \* number of subprocesses a behaviour may launch
  stream              \* the consumers of get_event_stream()

lifeVars == <<procs, life, launches>>
chanVars == <<process, stdout_reader, stdout, response_handlers, fut, message_queue,
              req, nreq, nlines, lifeVars, stream>>

(***************************************************************************)
(* One application of the prefix rules of a MountedInstance                *)
(***************************************************************************)
VARIABLES
  fn                  \* the rule kind, the prefix, the argument and the value computed

(***************************************************************************)
(* The run() scopes and their periodic child tasks; the push subscribers   *)
(***************************************************************************)
VARIABLES
  run,                \* the run() scope of the Session Registry and its sweep loop
  refresh_at,         \* when the sleep of the router's cache refresh loop ends
  event_subscribers   \* the channel's subscriber list and the _emit_event loop in progress

taskVars == <<run, refresh_at>>
\* run() has been entered: the task group holds the periodic child task
IdleRun == [scope |-> "entered", how |-> "none", loop |-> "alive"]
vars == <<routerVars, chanVars, fn, taskVars, event_subscribers>>

\* no _emit_event loop in progress; a channel without subscribers
IdleEmit == [pc |-> "idle", copy |-> <<>>, idx |-> 0, will |-> "none"]
NoSubscribers == [list |-> <<>>, emit |-> IdleEmit]

NoKey == <<>>
NoTime == 0 - 1
\* a cached listing, with the clock reading at which it was stored
NoCache == [set |-> FALSE, items |-> <<>>, at |-> NoTime]
EmptyCaches == [k \in Kinds |-> NoCache]

IdleCall ==
  [n |-> 0, op |-> "none", pc |-> "idle", kind |-> "none", name |-> <<>>,
   inst |-> "none", tr |-> "none", verify |-> FALSE, mid |-> 0, key |-> NoKey,
   sess |-> 0, fwd |-> <<>>, sres |-> "none", tag |-> "none", val |-> <<>>,
   items |-> <<>>, idx |-> 0, size |-> 0, probed |-> <<>>, seen |-> {}, gone |-> {},
   mlen |-> 0, current_time |-> 0, expired |-> <<>>]

\* a finished call: tag is "True", "False", "result", "list" or "raise"
Done(rec, tag, val) == [rec EXCEPT !.pc = "done", !.tag = tag, !.val = val]

(***************************************************************************)
(* The mount map as an insertion-ordered dict                              *)
(***************************************************************************)
MountedPrefixes == {mounted_instances[i].prefix : i \in 1..Len(mounted_instances)}
\* faulty variant: the duplicate check is missing
IsMountedNever(prefix) == FALSE
IsMounted(prefix) == prefix \in MountedPrefixes
DictSet(d, prefix, mid) ==
  IF \E i \in 1..Len(d) : d[i].prefix = prefix
  THEN [i \in 1..Len(d) |-> IF d[i].prefix = prefix THEN [prefix |-> prefix, mid |-> mid] ELSE d[i]]
  ELSE Append(d, [prefix |-> prefix, mid |-> mid])
DictPop(d, prefix) == SelectSeq(d, LAMBDA e : e.prefix # prefix)
DictGet(d, prefix) ==
  IF \E i \in 1..Len(d) : d[i].prefix = prefix
  THEN (CHOOSE e \in {d[i] : i \in 1..Len(d)} : e.prefix = prefix).mid
  ELSE 0

\* position of a prefix among the entries, 0 if absent
DictIndex(d, prefix) ==
  IF \E i \in 1..Len(d) : d[i].prefix = prefix
  THEN CHOOSE i \in 1..Len(d) : d[i].prefix = prefix
  ELSE 0

\* function update that may add a key
MapSet(f, k, v) == [x \in (DOMAIN f) \cup {k} |-> IF x = k THEN v ELSE f[x]]
MapDel(f, k) == [x \in (DOMAIN f) \ {k} |-> f[x]]

\* the session id create_session builds from the instance id and id(transport)
SessionId(inst, tr) == <<inst, tr>>

ScopeExit(so, s) == IF s = 0 THEN so ELSE [so EXCEPT ![s].scope = "exited"]

(***************************************************************************)
(* Continuations: the code a call runs, without suspending, after an await *)
(* returns.  Each sets calls', mounted_instances', cache', cache_expiry'.  *)
(***************************************************************************)
SetRouter(c, rec, mi, ca, ce) ==
  /\ calls' = [calls EXCEPT ![c] = rec]
  /\ mounted_instances' = mi
  /\ cache' = ca
  /\ cache_expiry' = ce

\* A dict iterator keeps its position in the entry table, where a popped
\* entry leaves a hole: counted over the live entries, the position of an
\* iteration that is at or past entry j moves down by one when j is popped.
IterAfterPop(rec, j) ==
  IF rec.op \in {"list", "status"} /\ rec.pc # "done" /\ rec.idx >= j
  THEN [rec EXCEPT !.idx = @ - 1]
  ELSE rec
SetRouterPop(c, rec, j, ca, ce) ==
  /\ calls' = [d \in DOMAIN calls |-> IF d = c THEN rec ELSE IterAfterPop(calls[d], j)]
  /\ mounted_instances' = DictPop(mounted_instances, mounted_instances[j].prefix)
  /\ cache' = ca
  /\ cache_expiry' = ce

\* MountedInstance.get_session up to its first await, then the session call
\* the caller makes with the session it got; the call record notes the
\* clock reading at which the session was handed out
IssueSessionCall(rec, m, s, mo) ==
  [rec EXCEPT !.mid = m, !.sess = s, !.pc = "sess", !.current_time = now,
              !.fwd = IF rec.op = "call" THEN StripKind(rec.kind, mo[m].prefix, rec.name) ELSE <<>>]
EnterGetSession(rec, m, mo) ==
  IF mo[m].session # 0
  THEN IssueSessionCall(rec, m, mo[m].session, mo)
  ELSE [rec EXCEPT !.mid = m, !.sess = 0, !.pc = "connect",
                   !.key = SessionId(mo[m].instance_id, mo[m].transport)]

\* next iteration of "for prefix, mounted in self.mounted_instances.items()"
ListIter(c, rec, mo, ca, ce) ==
  IF Len(mounted_instances) # rec.size
  THEN SetRouter(c, Done(rec, "raise", <<"RuntimeError">>), mounted_instances, ca, ce)
  ELSE IF rec.idx > Len(mounted_instances)
  THEN IF rec.op = "status"
       THEN SetRouter(c, Done(rec, "status", rec.items), mounted_instances, ca, ce)
       ELSE SetRouter(c, Done(rec, "list", rec.items), mounted_instances,
                      [ca EXCEPT ![rec.kind] = [set |-> TRUE, items |-> rec.items, at |-> now]], ce)
  ELSE SetRouter(c, EnterGetSession(rec, mounted_instances[rec.idx].mid, mo),
                 mounted_instances, ca, ce)

\* get_status: the entry written for a mount whose probe raised
UnhealthyEntry(m, err) ==
  [prefix |-> m.prefix, instance_id |-> m.instance_id, status |-> "unhealthy",
   counts |-> <<>>, error |-> err]

\* an exception reaches the except clause of the operation the call runs
OnError(c, rec, err, mo) ==
  IF rec.op = "mount"
  THEN SetRouter(c, Done(rec, "False", <<>>), mounted_instances, cache, cache_expiry)
  ELSE IF rec.op = "list"
  THEN ListIter(c, [rec EXCEPT !.idx = @ + 1,
                               !.probed = Append(@, [mid |-> rec.mid, ok |-> FALSE])],
                mo, cache, cache_expiry)
  ELSE IF rec.op = "status"
  THEN ListIter(c, [rec EXCEPT !.idx = @ + 1, !.kind = "tool",
                               !.items = Append(@, UnhealthyEntry(mo[rec.mid], err))],
                mo, cache, cache_expiry)
  ELSE SetRouter(c, Done(rec, "raise", <<err>>), mounted_instances, cache, cache_expiry)

\* the items one mount contributes, re-qualified; stops at the first item
\* whose re-qualification raises
RECURSIVE PrefixedItems(_, _, _, _, _)
PrefixedItems(kind, prefix, instance_id, locals, i) ==
  IF i > Len(locals) THEN <<>>
  ELSE IF AddKind(kind, prefix, locals[i]) = InvalidUri THEN <<>>
  ELSE <<[name |-> AddKind(kind, prefix, locals[i]), instance_id |-> instance_id,
          prefix |-> prefix]>>
       \o PrefixedItems(kind, prefix, instance_id, locals, i + 1)

(***************************************************************************)
(* MCPSaaSComposite.mount                                                  *)
(***************************************************************************)
\* Caller tasks are interchangeable: the second one only starts a call that
\* overlaps a call of the first.
CanStart(c) ==
  /\ calls[c].pc \in {"idle", "done"}
  /\ nops < budget
  /\ c = "c2" => calls["c1"].pc \notin {"idle", "done"}
NewCall(op) == [IdleCall EXCEPT !.n = nops + 1, !.op = op]

\* mount(): the part that runs before the first await.  A duplicate prefix
\* returns False at once; without verify_connection the mount is registered
\* at once; otherwise the call suspends in mounted.get_session().
Mount(c, instance_id, prefix, transport, verify_connection) ==
  /\ CanStart(c)
  /\ nops' = nops + 1
  /\ LET rec == [NewCall("mount") EXCEPT !.inst = instance_id, !.name = prefix,
                                         !.tr = transport, !.verify = verify_connection]
         m == Len(mobj) + 1
         mo == Append(mobj, [instance_id |-> instance_id, prefix |-> prefix,
                             transport |-> transport, session |-> 0, session_id |-> NoKey,
                             removed |-> FALSE])
     IN IF IsMounted(prefix)
        THEN /\ SetRouter(c, Done(rec, "False", <<>>), mounted_instances, cache, cache_expiry)
             /\ mobj' = mobj
        ELSE /\ mobj' = mo
             /\ IF verify_connection
                THEN SetRouter(c, EnterGetSession(rec, m, mo), mounted_instances, cache, cache_expiry)
                ELSE SetRouter(c, Done([rec EXCEPT !.mid = m], "True", <<>>),
                               DictSet(mounted_instances, prefix, m), EmptyCaches, NoTime)
  /\ UNCHANGED <<sobj, active_sessions, store, logs, now, budget, chanVars, fn, taskVars, event_subscribers>>

(***************************************************************************)
(* MCPSaaSSessionManager.create_session, as run by                         *)
(* MountedInstance.get_session: one action per await                       *)
(***************************************************************************)
\* the instance a create_session call is for: the one of the mount that
\* asked for the session, or the argument of a direct call
CallInstance(rec) == IF rec.mid # 0 THEN mobj[rec.mid].instance_id ELSE rec.inst

\* async with session_transport.connect_session(...) as session
Connect(c, ok) ==
  /\ calls[c].pc = "connect"
  /\ IF ok
     THEN /\ sobj' = Append(sobj, [inst |-> CallInstance(calls[c]),
                                   scope |-> "open", closed |-> FALSE])
          /\ SetRouter(c, [calls[c] EXCEPT !.pc = "init", !.sess = Len(sobj) + 1],
                       mounted_instances, cache, cache_expiry)
     ELSE /\ sobj' = sobj
          /\ OnError(c, calls[c], "ConnectionFailure", mobj)
  /\ UNCHANGED <<mobj, active_sessions, store, logs, now, nops, budget, chanVars, fn, taskVars, event_subscribers>>

\* await session.initialize()
Initialize(c, ok) ==
  /\ calls[c].pc = "init"
  /\ IF ok
     THEN /\ sobj' = sobj
          /\ SetRouter(c, [calls[c] EXCEPT !.pc = "hset"], mounted_instances, cache, cache_expiry)
     ELSE /\ sobj' = ScopeExit(sobj, calls[c].sess)
          /\ OnError(c, calls[c], "InitializeFailure", mobj)
  /\ UNCHANGED <<mobj, active_sessions, store, logs, now, nops, budget, chanVars, fn, taskVars, event_subscribers>>

\* await self.redis_client.hset(key, mapping=session_data)
StoreHset(st, key, t) ==
  MapSet(st, key, [full |-> TRUE, created_at |-> t, last_activity |-> t,
                   expire_at |-> IF key \in DOMAIN st THEN st[key].expire_at ELSE NoTime])
Hset(c, ok) ==
  /\ calls[c].pc = "hset"
  /\ IF ok
     THEN /\ store' = StoreHset(store, calls[c].key, now)
          /\ sobj' = sobj
          /\ SetRouter(c, [calls[c] EXCEPT !.pc = "expire"], mounted_instances, cache, cache_expiry)
     ELSE /\ store' = store
          /\ sobj' = ScopeExit(sobj, calls[c].sess)
          /\ OnError(c, calls[c], "StoreFailure", mobj)
  /\ UNCHANGED <<mobj, active_sessions, logs, now, nops, budget, chanVars, fn, taskVars, event_subscribers>>

\* await self.redis_client.expire(key, session_timeout); then, with no await
\* in between, self.active_sessions[session_id] = session and the return
\* statement starts leaving the connect_session scope
StoreExpire(st, key, t) ==
  IF key \in DOMAIN st THEN [st EXCEPT ![key].expire_at = t + SessionTimeout] ELSE st
Expire(c, ok) ==
  /\ calls[c].pc = "expire"
  /\ IF ok
     THEN /\ store' = StoreExpire(store, calls[c].key, now)
          /\ active_sessions' = MapSet(active_sessions, calls[c].key, calls[c].sess)
          /\ sobj' = sobj
          /\ SetRouter(c, [calls[c] EXCEPT !.pc = "aexit"], mounted_instances, cache, cache_expiry)
     ELSE /\ store' = store
          /\ active_sessions' = active_sessions
          /\ sobj' = ScopeExit(sobj, calls[c].sess)
          /\ OnError(c, calls[c], "StoreFailure", mobj)
  /\ UNCHANGED <<mobj, logs, now, nops, budget, chanVars, fn, taskVars, event_subscribers>>

\* "return session_id" inside the async with block: the connect_session
\* scope is exited, create_session returns, MountedInstance.get_session
\* stores _session_id and calls session_manager.get_session, which looks
\* the id up and suspends in hset(last_activity)
ScopeOnReturn(so, s) == ScopeExit(so, s)
ReturnFromCreate(c) ==
  /\ calls[c].pc = "aexit"
  /\ sobj' = ScopeOnReturn(sobj, calls[c].sess)
  /\ LET rec == calls[c]
         mo == [mobj EXCEPT ![rec.mid].session_id = rec.key]
     IN IF rec.op = "create_session"
        THEN /\ mobj' = mobj
             /\ SetRouter(c, Done(rec, "result", rec.key), mounted_instances, cache, cache_expiry)
        ELSE /\ mobj' = mo
             /\ IF rec.key \in DOMAIN active_sessions
                THEN SetRouter(c, [rec EXCEPT !.pc = "touch", !.sess = active_sessions[rec.key]],
                               mounted_instances, cache, cache_expiry)
                ELSE OnError(c, rec, "NoneSession", mo)
  /\ UNCHANGED <<active_sessions, store, logs, now, nops, budget, chanVars, fn, taskVars, event_subscribers>>

\* MCPSaaSSessionManager.get_session: hset(key, "last_activity", now); then
\* MountedInstance.get_session stores _session and the caller issues its
\* session call
\* faulty variant: the timestamp is not written
StoreTouchNone(st, key, t) == st
StoreTouch(st, key, t) ==
  IF key \in DOMAIN st THEN [st EXCEPT ![key].last_activity = t]
  ELSE MapSet(st, key, [full |-> FALSE, created_at |-> NoTime, last_activity |-> t,
                        expire_at |-> NoTime])
Touch(c, ok) ==
  /\ calls[c].pc = "touch"
  /\ LET rec == calls[c]
     IN IF ok /\ rec.op = "get_session"
        THEN /\ store' = StoreTouch(store, rec.key, now)
             /\ mobj' = mobj
             /\ SetRouter(c, Done(rec, "result", <<rec.sess>>),
                          mounted_instances, cache, cache_expiry)
        ELSE IF ok
        THEN LET mo == [mobj EXCEPT ![rec.mid].session = rec.sess]
             IN /\ store' = StoreTouch(store, rec.key, now)
                /\ mobj' = mo
                /\ SetRouter(c, IssueSessionCall(rec, rec.mid, rec.sess, mo),
                             mounted_instances, cache, cache_expiry)
        ELSE /\ store' = store
             /\ mobj' = mobj
             /\ OnError(c, rec, "StoreFailure", mobj)
  /\ UNCHANGED <<sobj, active_sessions, logs, now, nops, budget, chanVars, fn, taskVars, event_subscribers>>

(***************************************************************************)
(* The session call a router operation awaits, and what follows it         *)
(***************************************************************************)
\* what the mounted instance answers to call_tool / get_prompt / read_resource
SessionResult(rec) == <<sobj[rec.sess].inst, rec.fwd>>

\* mount(): self.mounted_instances[prefix] = mounted; self._invalidate_cache()
RegisterMount(c, rec) ==
  SetRouter(c, Done(rec, "True", <<>>), DictSet(mounted_instances, rec.name, rec.mid),
            EmptyCaches, NoTime)

\* get_status: the entry written for a mount that answered its three probes
HealthyEntry(m, inst) ==
  [prefix |-> m.prefix, instance_id |-> m.instance_id, status |-> "healthy",
   counts |-> <<Len(LocalItems(inst, "tool")), Len(LocalItems(inst, "resource")),
                Len(LocalItems(inst, "prompt"))>>,
   error |-> "none"]

\* the reply (or failure) of session.list_tools() / call_tool() / ...
SessionReply(c, ok) ==
  /\ calls[c].pc = "sess"
  /\ LET rec == calls[c]
         m == mobj[rec.mid]
         locals == LocalItems(sobj[rec.sess].inst, rec.kind)
         added == PrefixedItems(rec.kind, m.prefix, m.instance_id, locals, 1)
     IN IF rec.op = "mount"
        THEN IF ok THEN RegisterMount(c, rec)
             ELSE OnError(c, rec, "UpstreamError", mobj)
        ELSE IF rec.op = "call"
        THEN IF ok
             THEN SetRouter(c, [rec EXCEPT !.pc = "log", !.sres = "ok"],
                            mounted_instances, cache, cache_expiry)
             ELSE OnError(c, [rec EXCEPT !.sres = "raise"], "UpstreamError", mobj)
        ELSE IF rec.op = "status"
        THEN IF ~ok THEN OnError(c, rec, "UpstreamError", mobj)
             ELSE IF rec.kind = "tool"
             THEN SetRouter(c, [rec EXCEPT !.kind = "resource"],
                            mounted_instances, cache, cache_expiry)
             ELSE IF rec.kind = "resource"
             THEN SetRouter(c, [rec EXCEPT !.kind = "prompt"],
                            mounted_instances, cache, cache_expiry)
             ELSE ListIter(c, [rec EXCEPT
                                 !.items = Append(@, HealthyEntry(m, sobj[rec.sess].inst)),
                                 !.idx = @ + 1, !.kind = "tool"],
                           mobj, cache, cache_expiry)
        ELSE IF ok
             THEN ListIter(c, [rec EXCEPT
                                 !.items = @ \o added,
                                 !.idx = @ + 1,
                                 !.probed = Append(@, [mid |-> rec.mid,
                                                       ok |-> Len(added) = Len(locals)])],
                           mobj, cache, cache_expiry)
             ELSE OnError(c, rec, "UpstreamError", mobj)
  /\ UNCHANGED <<mobj, sobj, active_sessions, store, logs, now, nops, budget, chanVars, fn, taskVars, event_subscribers>>

\* _log_tool_call / _log_prompt_usage / _log_resource_access: xadd to the
\* instance's stream, then "return result"
LogEntry(rec) ==
  [type |-> rec.kind, instance_id |-> mobj[rec.mid].instance_id, name |-> rec.name,
   success |-> TRUE]
LogReply(c, ok) ==
  /\ calls[c].pc = "log"
  /\ IF ok
     THEN /\ logs' = Append(logs, LogEntry(calls[c]))
          /\ SetRouter(c, Done(calls[c], "result", SessionResult(calls[c])),
                       mounted_instances, cache, cache_expiry)
     ELSE /\ logs' = logs
          /\ OnError(c, calls[c], "SinkFailure", mobj)
  /\ UNCHANGED <<mobj, sobj, active_sessions, store, now, nops, budget, chanVars, fn, taskVars, event_subscribers>>

(***************************************************************************)
(* call_tool / get_prompt / read_resource                                  *)
(***************************************************************************)
\* index of the first mount, in scan order, whose prefix matches; 0 if none
FirstMatch(kind, name) ==
  LET hits == {i \in 1..Len(mounted_instances) :
                 MatchKind(kind, mounted_instances[i].prefix, name)}
  IN IF hits = {} THEN 0 ELSE CHOOSE i \in hits : \A j \in hits : i <= j

Call(c, kind, name) ==
  /\ CanStart(c)
  /\ nops' = nops + 1
  /\ LET rec == [NewCall("call") EXCEPT !.kind = kind, !.name = name]
         i == FirstMatch(kind, name)
     IN IF i = 0
        THEN SetRouter(c, Done(rec, "raise", <<"NotFound">>), mounted_instances, cache, cache_expiry)
        ELSE SetRouter(c, EnterGetSession(rec, mounted_instances[i].mid, mobj),
                       mounted_instances, cache, cache_expiry)
  /\ UNCHANGED <<mobj, sobj, active_sessions, store, logs, now, budget, chanVars, fn, taskVars, event_subscribers>>

(***************************************************************************)
(* list_tools / list_prompts / list_resources                              *)
(***************************************************************************)
\* prefixes whose unmount has returned True and that are not mounted now
RemovedPrefixes ==
  {mobj[m].prefix : m \in {i \in 1..Len(mobj) : mobj[i].removed}} \ MountedPrefixes

\* _ensure_cache_valid
\* faulty variant: the expiry is never looked at
CacheStaleNever == cache_expiry = NoTime
CacheStale == cache_expiry = NoTime \/ now > cache_expiry
List(c, kind) ==
  /\ CanStart(c)
  /\ nops' = nops + 1
  /\ LET rec == [NewCall("list") EXCEPT !.kind = kind, !.seen = MountedPrefixes,
                                        !.gone = RemovedPrefixes, !.mlen = Len(mobj)]
         ca == IF CacheStale THEN EmptyCaches ELSE cache
         ce == IF CacheStale THEN now + CacheDuration ELSE cache_expiry
     IN IF ca[kind].set
        THEN SetRouter(c, Done(rec, "list", ca[kind].items), mounted_instances, ca, ce)
        ELSE ListIter(c, [rec EXCEPT !.idx = 1, !.size = Len(mounted_instances)], mobj, ca, ce)
  /\ UNCHANGED <<mobj, sobj, active_sessions, store, logs, now, budget, chanVars, fn, taskVars, event_subscribers>>

(***************************************************************************)
(* get_status: one probe of three session calls per mount, in scan order   *)
(***************************************************************************)
Status(c) ==
  /\ CanStart(c)
  /\ nops' = nops + 1
  /\ LET rec == [NewCall("status") EXCEPT !.kind = "tool", !.seen = MountedPrefixes,
                                          !.idx = 1, !.size = Len(mounted_instances)]
     IN ListIter(c, rec, mobj, cache, cache_expiry)
  /\ UNCHANGED <<mobj, sobj, active_sessions, store, logs, now, budget, chanVars, fn, taskVars, event_subscribers>>

(***************************************************************************)
(* unmount, MountedInstance.close, MCPSaaSSessionManager.close_session     *)
(***************************************************************************)
Unmount(c, prefix) ==
  /\ CanStart(c)
  /\ nops' = nops + 1
  /\ LET rec == [NewCall("unmount") EXCEPT !.name = prefix]
         m == DictGet(mounted_instances, prefix)
     IN IF m = 0
        THEN /\ SetRouter(c, Done(rec, "False", <<>>), mounted_instances, cache, cache_expiry)
             /\ active_sessions' = active_sessions
             /\ mobj' = mobj
        ELSE IF mobj[m].session_id = NoKey
        THEN /\ SetRouterPop(c, Done([rec EXCEPT !.mid = m], "True", <<>>),
                             DictIndex(mounted_instances, prefix), EmptyCaches, NoTime)
             /\ active_sessions' = active_sessions
             /\ mobj' = [mobj EXCEPT ![m].removed = TRUE]
        ELSE LET key == mobj[m].session_id
                 s == IF key \in DOMAIN active_sessions THEN active_sessions[key] ELSE 0
             IN /\ active_sessions' = MapDel(active_sessions, key)
                /\ mobj' = mobj
                /\ SetRouterPop(c, [rec EXCEPT !.mid = m, !.key = key, !.sess = s,
                                               !.pc = IF s # 0 THEN "sclose" ELSE "del"],
                                DictIndex(mounted_instances, prefix), cache, cache_expiry)
  /\ UNCHANGED <<sobj, store, logs, now, budget, chanVars, fn, taskVars, event_subscribers>>

\* await session.close(), errors swallowed
SessionClose(c, ok) ==
  /\ calls[c].pc = "sclose"
  /\ sobj' = IF ok THEN [sobj EXCEPT ![calls[c].sess].closed = TRUE] ELSE sobj
  /\ SetRouter(c, [calls[c] EXCEPT !.pc = "del"], mounted_instances, cache, cache_expiry)
  /\ UNCHANGED <<mobj, active_sessions, store, logs, now, nops, budget, chanVars, fn, taskVars, event_subscribers>>

\* close_session up to its first await: session = active_sessions.pop(id)
EnterCloseSession(rec, key, act) ==
  [rec EXCEPT !.key = key,
              !.sess = IF key \in DOMAIN act THEN act[key] ELSE 0,
              !.pc = IF key \in DOMAIN act THEN "sclose" ELSE "del"]

\* "for session_id in expired_sessions: await self.close_session(session_id)"
\* of a sweep tick, and the same loop of _cleanup_all_sessions: enter the
\* next close_session, or return when none is left
CloseNext(c, rec, act) ==
  IF rec.expired = <<>>
  THEN /\ active_sessions' = act
       /\ SetRouter(c, Done(rec, "None", <<>>), mounted_instances, cache, cache_expiry)
  ELSE /\ active_sessions' = MapDel(act, Head(rec.expired))
       /\ SetRouter(c, EnterCloseSession([rec EXCEPT !.expired = Tail(@)], Head(rec.expired), act),
                    mounted_instances, cache, cache_expiry)

\* await self.redis_client.delete(key).  In unmount: back in
\* MountedInstance.close the session fields are cleared and unmount
\* invalidates the caches.  In a sweep tick or the shutdown: the next
\* close_session is entered.  A failure of the store propagates.
\* faulty variant: the record is left in the store
StoreDeleteKept(st, key) == st
StoreDelete(st, key) == MapDel(st, key)
Delete(c, ok) ==
  /\ calls[c].pc = "del"
  /\ LET rec == calls[c]
     IN IF ~ok
        THEN /\ store' = store
             /\ mobj' = mobj
             /\ active_sessions' = active_sessions
             /\ SetRouter(c, Done(rec, "raise", <<"StoreFailure">>),
                          mounted_instances, cache, cache_expiry)
        ELSE /\ store' = StoreDelete(store, rec.key)
             /\ IF rec.op = "unmount"
                THEN /\ mobj' = [mobj EXCEPT ![rec.mid].session = 0, ![rec.mid].session_id = NoKey,
                                             ![rec.mid].removed = TRUE]
                     /\ active_sessions' = active_sessions
                     /\ SetRouter(c, Done(rec, "True", <<>>), mounted_instances, EmptyCaches, NoTime)
                ELSE IF rec.op = "close_session"
                THEN /\ mobj' = mobj
                     /\ active_sessions' = active_sessions
                     /\ SetRouter(c, Done(rec, "None", <<>>), mounted_instances, cache, cache_expiry)
                ELSE /\ mobj' = mobj
                     /\ CloseNext(c, rec, active_sessions)
  /\ UNCHANGED <<sobj, logs, now, nops, budget, chanVars, fn, taskVars, event_subscribers>>

(***************************************************************************)
(* Session Registry called directly: create_session, get_session,          *)
(* close_session                                                           *)
(***************************************************************************)
\* the run() scope of the registry has not been left
Running(c) == calls[c].op # "shutdown"
SessionKeys == {SessionId(i, t) : i \in Instances, t \in Transports}

\* create_session up to "async with session_transport.connect_session(...)";
\* the call record notes the ids the map or the store held when it started
CreateSession(c, instance_id, transport) ==
  /\ CanStart(c) /\ Running(c)
  /\ nops' = nops + 1
  /\ SetRouter(c, [NewCall("create_session") EXCEPT !.inst = instance_id, !.tr = transport,
                                                    !.key = SessionId(instance_id, transport),
                                                    !.seen = DOMAIN active_sessions \cup DOMAIN store,
                                                    !.pc = "connect"],
               mounted_instances, cache, cache_expiry)
  /\ UNCHANGED <<mobj, sobj, active_sessions, store, logs, now, budget, chanVars, fn, taskVars, event_subscribers>>

\* get_session up to its hset; an id that is not in the map returns None.
\* The call record notes the clock reading at which the call was made.
GetSession(c, session_id) ==
  /\ CanStart(c) /\ Running(c)
  /\ nops' = nops + 1
  /\ LET rec == [NewCall("get_session") EXCEPT !.key = session_id, !.current_time = now]
     IN IF session_id \in DOMAIN active_sessions
        THEN SetRouter(c, [rec EXCEPT !.sess = active_sessions[session_id], !.pc = "touch"],
                       mounted_instances, cache, cache_expiry)
        ELSE SetRouter(c, Done(rec, "result", <<>>), mounted_instances, cache, cache_expiry)
  /\ UNCHANGED <<mobj, sobj, active_sessions, store, logs, now, budget, chanVars, fn, taskVars, event_subscribers>>

\* close_session up to its first await
CloseSession(c, session_id) ==
  /\ CanStart(c) /\ Running(c)
  /\ nops' = nops + 1
  /\ active_sessions' = MapDel(active_sessions, session_id)
  /\ SetRouter(c, EnterCloseSession(NewCall("close_session"), session_id, active_sessions),
               mounted_instances, cache, cache_expiry)
  /\ UNCHANGED <<mobj, sobj, store, logs, now, budget, chanVars, fn, taskVars, event_subscribers>>

(***************************************************************************)
(* The periodic sweep, the shutdown and the clock                          *)
(***************************************************************************)
\* the orders in which list(self.active_sessions.keys()) can hold the ids
KeyOrders(act) ==
  {ks \in [1..Cardinality(DOMAIN act) -> DOMAIN act] :
     \A i, j \in 1..Cardinality(DOMAIN act) : ks[i] = ks[j] => i = j}

\* (current_time - last_activity).total_seconds() > self.session_timeout
\* faulty variant: no session is ever found idle
IdleNever(current_time, last_activity) == FALSE
Idle(current_time, last_activity) == current_time - last_activity > SessionTimeout

\* ids of the active map whose stored last-activity is older than the timeout
IdleKeys ==
  {k \in DOMAIN active_sessions \cap DOMAIN store :
     now - store[k].last_activity > SessionTimeout}

\* one tick of _periodic_cleanup: _cleanup_expired_sessions up to its first
\* hgetall, or to its end when no session is active
SweepTick(c) ==
  /\ calls[c].pc \in {"idle", "done"} /\ Running(c)
  /\ \E ks \in KeyOrders(active_sessions) :
       LET rec == [IdleCall EXCEPT !.n = nops, !.op = "sweep", !.current_time = now,
                                   !.items = ks, !.seen = DOMAIN active_sessions,
                                   !.gone = IdleKeys]
       IN IF ks = <<>>
          THEN SetRouter(c, Done(rec, "None", <<>>), mounted_instances, cache, cache_expiry)
          ELSE SetRouter(c, [rec EXCEPT !.pc = "hgetall"], mounted_instances, cache, cache_expiry)
  /\ UNCHANGED <<mobj, sobj, active_sessions, store, logs, now, nops, budget, chanVars, fn, taskVars, event_subscribers>>

\* session_data = await self.redis_client.hgetall(key): a missing record or
\* an old last_activity puts the id on expired_sessions; after the last id
\* the sessions on the list are closed
Hgetall(c, ok) ==
  /\ calls[c].pc = "hgetall"
  /\ LET rec == calls[c]
         key == Head(rec.items)
         isExpired == \/ key \notin DOMAIN store
                      \/ Idle(rec.current_time, store[key].last_activity)
         nxt == [rec EXCEPT !.items = Tail(@),
                            !.expired = IF isExpired THEN Append(@, key) ELSE @]
     IN IF ~ok
        THEN /\ active_sessions' = active_sessions
             /\ OnError(c, rec, "StoreFailure", mobj)
        ELSE IF nxt.items # <<>>
        THEN /\ active_sessions' = active_sessions
             /\ SetRouter(c, nxt, mounted_instances, cache, cache_expiry)
        ELSE CloseNext(c, nxt, active_sessions)
  /\ UNCHANGED <<mobj, sobj, store, logs, now, nops, budget, chanVars, fn, taskVars, event_subscribers>>

\* the "finally" of run(): _cleanup_all_sessions closes the sessions of
\* list(self.active_sessions.keys()) one after the other
Shutdown(c) ==
  /\ calls[c].pc \in {"idle", "done"} /\ Running(c)
  /\ \E ks \in KeyOrders(active_sessions) :
       CloseNext(c, [IdleCall EXCEPT !.n = nops, !.op = "shutdown", !.expired = ks,
                                     !.seen = DOMAIN active_sessions],
                 active_sessions)
  /\ UNCHANGED <<mobj, sobj, store, logs, now, nops, budget, chanVars, fn, taskVars, event_subscribers>>

(***************************************************************************)
(* MCPSaaSSessionManager.run(): the task group, its sweep loop and the     *)
(* way the scope is left                                                   *)
(***************************************************************************)
\* one pass of "while True" in _periodic_cleanup: the sleep has ended and
\* _cleanup_expired_sessions starts
LoopTick(c) ==
  /\ run.loop = "alive"
  /\ calls[c].tag # "raise"
  /\ SweepTick(c)

\* "except Exception as e: logger.error(...)" around the tick: the loop goes
\* on to its next pass
\* faulty variant: the error ends the loop
LoopAfterErrorEnds(loop) == "ended"
LoopAfterError(loop) == loop
LoopCatch(c) ==
  /\ run.loop = "alive"
  /\ calls[c].op = "sweep" /\ calls[c].pc = "done" /\ calls[c].tag = "raise"
  /\ run' = [run EXCEPT !.loop = LoopAfterError(@)]
  /\ calls' = [calls EXCEPT ![c].tag = "logged"]
  /\ UNCHANGED <<mounted_instances, mobj, sobj, active_sessions, store, logs, cache,
                 cache_expiry, now, nops, budget, chanVars, fn, refresh_at, event_subscribers>>

\* the block under "async with session_manager.run()" ends, by returning
\* or with an exception: the generator resumes at its yield and runs its
\* "finally", _cleanup_all_sessions, up to the first await
RunLeave(c, how) ==
  /\ run.scope = "entered"
  /\ calls[c].pc \in {"idle", "done"} /\ Running(c)
  /\ run' = [run EXCEPT !.scope = "finally", !.how = how]
  /\ \E ks \in KeyOrders(active_sessions) :
       CloseNext(c, [IdleCall EXCEPT !.n = nops, !.op = "shutdown", !.expired = ks,
                                     !.seen = DOMAIN active_sessions],
                 active_sessions)
  /\ UNCHANGED <<mobj, sobj, store, logs, now, nops, budget, chanVars, fn, refresh_at,
                 event_subscribers>>

\* the "finally" has ended and control leaves the block of the task group:
\* __aexit__ receives the exception of the block or of the "finally", if any
RunJoin(c) ==
  /\ run.scope = "finally"
  /\ calls[c].op = "shutdown" /\ calls[c].pc = "done"
  /\ run' = [run EXCEPT !.scope = "joining",
                        !.how = IF calls[c].tag = "raise" THEN "raise" ELSE @]
  /\ UNCHANGED <<routerVars, chanVars, fn, refresh_at, event_subscribers>>

\* __aexit__ with an exception cancels the task group's scope: the sweep
\* loop gets CancelledError at the await it is suspended in, which its
\* "except Exception" does not catch.  Without an exception nothing is
\* cancelled.
LoopCancel(c) ==
  /\ run.scope = "joining" /\ run.how = "raise" /\ run.loop = "alive"
  /\ run' = [run EXCEPT !.loop = "cancelled"]
  /\ calls' = [calls EXCEPT ![c] = IF @.pc \in {"idle", "done"} THEN @
                                   ELSE Done(@, "cancelled", <<>>)]
  /\ UNCHANGED <<mounted_instances, mobj, sobj, active_sessions, store, logs, cache,
                 cache_expiry, now, nops, budget, chanVars, fn, refresh_at, event_subscribers>>

\* __aexit__ returns once every child task has ended
RunExited ==
  /\ run.scope = "joining" /\ run.loop # "alive"
  /\ run' = [run EXCEPT !.scope = "exited"]
  /\ UNCHANGED <<routerVars, chanVars, fn, refresh_at, event_subscribers>>

\* time passes; the store drops the records whose expiry has been reached
StoreAt(st, t) ==
  [k \in {x \in DOMAIN st : st[x].expire_at = NoTime \/ st[x].expire_at > t} |-> st[k]]
Tick ==
  /\ now < MaxTicks * TickStep
  /\ now' = now + TickStep
  /\ store' = StoreAt(store, now + TickStep)
  /\ UNCHANGED <<mounted_instances, mobj, sobj, active_sessions, logs, cache, cache_expiry,
                 calls, nops, budget, chanVars, fn, taskVars, event_subscribers>>

\* a mount is used regularly: UseInterval seconds pass after a call through
\* a mount has returned its result at the present clock reading
UsedNow ==
  \E c \in Calls :
    /\ calls[c].op = "call" /\ calls[c].pc = "done" /\ calls[c].tag = "result"
    /\ calls[c].current_time = now
Elapse ==
  /\ now < MaxTicks * TickStep
  /\ UsedNow
  /\ now' = now + UseInterval
  /\ store' = StoreAt(store, now + UseInterval)
  /\ UNCHANGED <<mounted_instances, mobj, sobj, active_sessions, logs, cache, cache_expiry,
                 calls, nops, budget, chanVars, fn, taskVars, event_subscribers>>

\* UseInterval seconds pass
Wait ==
  /\ now < MaxTicks * UseInterval
  /\ now' = now + UseInterval
  /\ store' = StoreAt(store, now + UseInterval)
  /\ UNCHANGED <<mounted_instances, mobj, sobj, active_sessions, logs, cache, cache_expiry,
                 calls, nops, budget, chanVars, fn, taskVars, event_subscribers>>

\* _cache_refresh_loop: the sleep of _cache_duration seconds has ended, the
\* caches are invalidated and the next sleep starts
CacheRefresh ==
  /\ now >= refresh_at
  /\ cache' = EmptyCaches
  /\ cache_expiry' = NoTime
  /\ refresh_at' = refresh_at + CacheDuration
  /\ UNCHANGED <<mounted_instances, mobj, sobj, active_sessions, store, logs, calls, now,
                 nops, budget, chanVars, fn, run, event_subscribers>>

(***************************************************************************)
(* Framed Channel (MCPStdioWrapper): actions                               *)
(***************************************************************************)
Callers == {"r1", "r2"}
NoResp == [id |-> 0, result |-> FALSE, error |-> FALSE]
IdleReq == [pc |-> "idle", id |-> 0, tag |-> "none", resp |-> NoResp]
NoFut == [state |-> "pending", resp |-> NoResp]

\* the lines a subprocess can write: a JSON object with an id (0 stands for
\* an id the channel never generated) with or without result / error members,
\* a JSON object without id, text that is not JSON, bytes that do not decode
RespLines == [t : {"resp"}, id : 0..MaxReq, result : BOOLEAN, error : BOOLEAN]
OtherLines == [t : {"notif", "nonjson", "badutf8"}, id : {0}, result : {FALSE}, error : {FALSE}]
Lines == RespLines \cup OtherLines

\* the tasks that call stop() or enter a connect_session scope, and the
\* consumers of the event stream
Users == {"u1", "u2"}
Consumers == {"k1", "k2"}
IdleLife == [op |-> "none", pc |-> "idle", p |-> 0, tag |-> "none"]
IdleStream == [pc |-> "idle", out |-> "none", n |-> 0]
NewProc == [state |-> "running", signal |-> "none"]

\* start(): launch the subprocess and the reader tasks; a failed launch
\* returns False and leaves the handle as it was.  There is no test of
\* self.process: a launch replaces the handle.
AfterStart(ok) ==
  IF ok
  THEN [process |-> Len(procs) + 1, procs |-> Append(procs, NewProc), reader |-> "running"]
  ELSE [process |-> process, procs |-> procs, reader |-> stdout_reader]
ChStart(ok) ==
  /\ Len(procs) < launches
  /\ process' = AfterStart(ok).process
  /\ procs' = AfterStart(ok).procs
  /\ stdout_reader' = AfterStart(ok).reader
  /\ UNCHANGED <<stdout, response_handlers, fut, message_queue, req, nreq, nlines, life,
                 launches, stream, routerVars, fn, taskVars, event_subscribers>>

\* the subprocess behind the handle writes one line to its stdout
ProcWrite(line) ==
  /\ process # 0 /\ procs[process].state = "running"
  /\ nlines < MaxLines
  /\ Len(stdout) < StdoutCap
  /\ line.t = "resp" => line.id <= nreq
  /\ nlines' = nlines + 1
  /\ stdout' = Append(stdout, line)
  /\ UNCHANGED <<process, stdout_reader, response_handlers, fut, message_queue, req, nreq,
                 lifeVars, stream, routerVars, fn, taskVars, event_subscribers>>

\* a subprocess exits, by itself or because of a signal
ProcExit(p) ==
  /\ p \in 1..Len(procs) /\ procs[p].state = "running"
  /\ procs' = [procs EXCEPT ![p].state = "exited"]
  /\ UNCHANGED <<process, stdout_reader, stdout, response_handlers, fut, message_queue, req,
                 nreq, nlines, life, launches, stream, routerVars, fn, taskVars, event_subscribers>>

\* send_request up to "await self.process.stdin.drain()".  Caller tasks are
\* interchangeable: the second one only starts a call that overlaps a call
\* of the first.
SendRequest(r) ==
  /\ req[r].pc \in {"idle", "done"}
  /\ r = "r2" => req["r1"].pc \notin {"idle", "done"}
  /\ nreq < MaxReq
  /\ IF process = 0
     THEN /\ req' = [req EXCEPT ![r] = [IdleReq EXCEPT !.pc = "done", !.tag = "not_started"]]
          /\ UNCHANGED <<response_handlers, fut, nreq>>
     ELSE /\ nreq' = nreq + 1
          /\ response_handlers' = response_handlers \cup {nreq + 1}
          /\ fut' = [fut EXCEPT ![nreq + 1] = NoFut]
          /\ req' = [req EXCEPT ![r] = [IdleReq EXCEPT !.pc = "drain", !.id = nreq + 1]]
  /\ UNCHANGED <<process, stdout_reader, stdout, message_queue, nlines, lifeVars, stream, routerVars, fn, taskVars, event_subscribers>>

\* drain() returns, or the write fails: pop the entry and raise
Drain(r, ok) ==
  /\ req[r].pc = "drain"
  /\ IF ok
     THEN /\ req' = [req EXCEPT ![r].pc = "wait"]
          /\ response_handlers' = response_handlers
     ELSE /\ req' = [req EXCEPT ![r].pc = "done", ![r].tag = "send_failed"]
          /\ response_handlers' = response_handlers \ {req[r].id}
  /\ UNCHANGED <<process, stdout_reader, stdout, fut, message_queue, nreq, nlines, lifeVars, stream, routerVars, fn, taskVars, event_subscribers>>

\* wait_for returns the response the future was resolved with
Deliver(r) ==
  /\ req[r].pc \in {"wait"}
  /\ fut[req[r].id].state = "result"
  /\ req' = [req EXCEPT ![r].pc = "done", ![r].tag = "response", ![r].resp = fut[req[r].id].resp]
  /\ UNCHANGED <<process, stdout_reader, stdout, response_handlers, fut, message_queue, nreq, nlines, lifeVars, stream, routerVars, fn, taskVars, event_subscribers>>

\* the 30 second timer of wait_for fires: the future is cancelled
Timeout(r) ==
  /\ req[r].pc = "wait"
  /\ fut[req[r].id].state = "pending"
  /\ fut' = [fut EXCEPT ![req[r].id].state = "cancelled"]
  /\ req' = [req EXCEPT ![r].pc = "timedout"]
  /\ UNCHANGED <<process, stdout_reader, stdout, response_handlers, message_queue, nreq, nlines, lifeVars, stream, routerVars, fn, taskVars, event_subscribers>>

\* except asyncio.TimeoutError: pop the entry and raise "timed out"
\* faulty variant: the entry is left in place
HandlersAfterTimeoutKept(handlers, id) == handlers
HandlersAfterTimeout(handlers, id) == handlers \ {id}
TimeoutRaise(r) ==
  /\ req[r].pc = "timedout"
  /\ response_handlers' = HandlersAfterTimeout(response_handlers, req[r].id)
  /\ req' = [req EXCEPT ![r].pc = "done", ![r].tag = "timeout"]
  /\ UNCHANGED <<process, stdout_reader, stdout, fut, message_queue, nreq, nlines, lifeVars, stream, routerVars, fn, taskVars, event_subscribers>>

\* _handle_mcp_message: the handler a line with this id resolves
\* faulty variant: the oldest pending handler is resolved, whatever the id
HandlerForOldest(id, handlers) ==
  IF handlers = {} THEN id ELSE CHOOSE h \in handlers : \A g \in handlers : h <= g
HandlerFor(id, handlers) == id

\* _emit_event after the put on the queue: the loop over a copy of the
\* subscriber list starts; with no subscriber it is over at once
EmitStart(subs) ==
  IF subs.list = <<>>
  THEN subs
  ELSE [subs EXCEPT !.emit = [pc |-> "next", copy |-> subs.list, idx |-> 1, will |-> "none"]]

\* _handle_stdout: read one line and handle it.  The reader task reads the
\* next line only when the handling of the previous one has returned.
ReadLine ==
  /\ stdout_reader = "running"
  /\ event_subscribers.emit.pc = "idle"
  /\ stdout # <<>>
  /\ stdout' = Tail(stdout)
  /\ LET line == Head(stdout)
         h == HandlerFor(line.id, response_handlers)
     IN CASE line.t = "badutf8" ->
               /\ stdout_reader' = "ended"
               /\ UNCHANGED <<response_handlers, fut, message_queue, event_subscribers>>
          [] line.t = "nonjson" ->
               /\ message_queue' = Append(message_queue, "raw_output")
               /\ event_subscribers' = EmitStart(event_subscribers)
               /\ UNCHANGED <<stdout_reader, response_handlers, fut>>
          [] line.t = "notif" ->
               /\ message_queue' = Append(message_queue, "notification")
               /\ event_subscribers' = EmitStart(event_subscribers)
               /\ UNCHANGED <<stdout_reader, response_handlers, fut>>
          [] line.t = "resp" ->
               /\ IF line.id \in response_handlers /\ h \in response_handlers
                  THEN /\ response_handlers' = response_handlers \ {h}
                       /\ fut' = IF fut[h].state = "pending"
                                 THEN [fut EXCEPT ![h] =
                                         [state |-> "result",
                                          resp |-> [id |-> line.id, result |-> line.result,
                                                    error |-> line.error]]]
                                 ELSE fut
                  ELSE UNCHANGED <<response_handlers, fut>>
               /\ UNCHANGED <<stdout_reader, message_queue, event_subscribers>>
  /\ UNCHANGED <<process, req, nreq, nlines, lifeVars, stream, routerVars, fn, taskVars>>

\* subscribe_to_events: append the callback
Subscribers == {"s1", "s2"}
Subscribe(s) ==
  /\ \A i \in 1..Len(event_subscribers.list) : event_subscribers.list[i] # s
  /\ event_subscribers' = [event_subscribers EXCEPT !.list = Append(@, s)]
  /\ UNCHANGED <<routerVars, chanVars, fn, taskVars>>

\* _emit_event: "await subscriber(event_data)" is reached for the next
\* subscriber of the copy.  The callback is handed the event; what it will
\* do is its own affair: return, raise, or never complete.
Outcomes == {"return", "raise", "never"}
NotifyCall(o) ==
  /\ event_subscribers.emit.pc = "next"
  /\ event_subscribers' = [event_subscribers EXCEPT !.emit.pc = "awaiting", !.emit.will = o]
  /\ UNCHANGED <<routerVars, chanVars, fn, taskVars>>

\* list.remove(subscriber): the first occurrence is taken out
RECURSIVE Remove(_, _)
Remove(list, s) ==
  IF list = <<>> THEN <<>>
  ELSE IF Head(list) = s THEN Tail(list)
  ELSE <<Head(list)>> \o Remove(Tail(list), s)

\* the loop goes on to the next subscriber of the copy, or _emit_event
\* returns to the reader
EmitAdvance(emit) ==
  IF emit.idx < Len(emit.copy)
  THEN [emit EXCEPT !.pc = "next", !.idx = @ + 1, !.will = "none"]
  ELSE IdleEmit

\* the awaited callback returns or raises; a callback that raised is removed
AfterNotify(subs) ==
  [list |-> IF subs.emit.will = "raise"
            THEN Remove(subs.list, subs.emit.copy[subs.emit.idx])
            ELSE subs.list,
   emit |-> EmitAdvance(subs.emit)]
NotifyReturn ==
  /\ event_subscribers.emit.pc = "awaiting"
  /\ event_subscribers.emit.will \in {"return", "raise"}
  /\ event_subscribers' = AfterNotify(event_subscribers)
  /\ UNCHANGED <<routerVars, chanVars, fn, taskVars>>

\* _handle_stdout: the loop ends when the pipe of an exited subprocess is
\* empty
ReaderEof ==
  /\ stdout_reader = "running" /\ stdout = <<>>
  /\ process # 0 /\ procs[process].state = "exited"
  /\ stdout_reader' = "ended"
  /\ UNCHANGED <<process, stdout, response_handlers, fut, message_queue, req, nreq, nlines,
                 lifeVars, stream, routerVars, fn, taskVars, event_subscribers>>

(***************************************************************************)
(* Framed Channel: stop(), one action per await                            *)
(***************************************************************************)
\* the "finally" of stop(): self.process = None; the reader finds no handle
\* and ends
\* faulty variant: the handle is left in place
StopFinallyKept(u, op, tag) ==
  /\ process' = process
  /\ stdout_reader' = stdout_reader
  /\ procs' = procs
  /\ life' = [life EXCEPT ![u] = [op |-> op, pc |-> "done", p |-> 0, tag |-> tag]]
StopFinally(u, op, tag) ==
  /\ process' = 0
  /\ stdout_reader' = IF stdout_reader = "running" THEN "ended" ELSE stdout_reader
  /\ procs' = procs
  /\ life' = [life EXCEPT ![u] = [op |-> op, pc |-> "done", p |-> 0, tag |-> tag]]

\* stop() up to its first await, on a channel whose handle is pr: with no
\* handle nothing is done; otherwise terminate() is sent, and when it
\* raises (the subprocess is gone, or the signal fails) the error is logged
\* and the handle cleared; otherwise the call waits in
\* wait_for(self.process.wait(), 5.0)
StopEnter(u, op, pr, ps, rd, ok) ==
  IF pr = 0
  THEN /\ process' = pr /\ procs' = ps /\ stdout_reader' = rd
       /\ life' = [life EXCEPT ![u] = [op |-> op, pc |-> "done", p |-> 0, tag |-> "noop"]]
  ELSE IF ~ok \/ ps[pr].state = "exited"
  THEN /\ process' = 0 /\ procs' = ps
       /\ stdout_reader' = IF rd = "running" THEN "ended" ELSE rd
       /\ life' = [life EXCEPT ![u] = [op |-> op, pc |-> "done", p |-> 0, tag |-> "stopped"]]
  ELSE /\ process' = pr /\ stdout_reader' = rd
       /\ procs' = [ps EXCEPT ![pr].signal = IF @ = "kill" THEN "kill" ELSE "term"]
       /\ life' = [life EXCEPT ![u] = [op |-> op, pc |-> "wait", p |-> pr, tag |-> "none"]]

StopCall(u, ok) ==
  /\ life[u].pc \in {"idle", "done"}
  /\ StopEnter(u, "stop", process, procs, stdout_reader, ok)
  /\ UNCHANGED <<stdout, response_handlers, fut, message_queue, req, nreq, nlines, launches,
                 stream, routerVars, fn, taskVars, event_subscribers>>

\* self.process.wait() returned within the grace period
StopWaited(u) ==
  /\ life[u].pc = "wait" /\ procs[life[u].p].state = "exited"
  /\ StopFinally(u, life[u].op, "stopped")
  /\ UNCHANGED <<stdout, response_handlers, fut, message_queue, req, nreq, nlines, launches,
                 stream, routerVars, fn, taskVars, event_subscribers>>

\* except asyncio.TimeoutError: self.process.kill(); await self.process.wait().
\* The handle is read again: with no handle, or with one whose subprocess
\* is gone, kill() raises out of stop() through the "finally".
StopGrace(u) ==
  /\ life[u].pc = "wait" /\ procs[life[u].p].state = "running"
  /\ IF process = 0 \/ procs[process].state = "exited"
     THEN StopFinally(u, life[u].op, "raise")
     ELSE /\ process' = process /\ stdout_reader' = stdout_reader
          /\ procs' = [procs EXCEPT ![process].signal = "kill"]
          /\ life' = [life EXCEPT ![u].pc = "killwait", ![u].p = process]
  /\ UNCHANGED <<stdout, response_handlers, fut, message_queue, req, nreq, nlines, launches,
                 stream, routerVars, fn, taskVars, event_subscribers>>

\* the wait() after kill() returned
StopKilled(u) ==
  /\ life[u].pc = "killwait" /\ procs[life[u].p].state = "exited"
  /\ StopFinally(u, life[u].op, "stopped")
  /\ UNCHANGED <<stdout, response_handlers, fut, message_queue, req, nreq, nlines, launches,
                 stream, routerVars, fn, taskVars, event_subscribers>>

\* the task is cancelled while stop() waits: CancelledError is not an
\* Exception, so only the "finally" runs
StopCancel(u) ==
  /\ life[u].pc \in {"wait", "killwait"}
  /\ StopFinally(u, life[u].op, "cancelled")
  /\ UNCHANGED <<stdout, response_handlers, fut, message_queue, req, nreq, nlines, launches,
                 stream, routerVars, fn, taskVars, event_subscribers>>

(***************************************************************************)
(* MCPStdioTransport.connect_session bound to a Framed Channel             *)
(***************************************************************************)
\* the "finally" of connect_session: await self.stdio_wrapper.stop()
\* faulty variant: the scope is left without stop()
ScopeFinallyNoStop(u, pr, ps, rd, ok) ==
  /\ process' = pr /\ procs' = ps /\ stdout_reader' = rd
  /\ life' = [life EXCEPT ![u] = [op |-> "connect", pc |-> "done", p |-> 0, tag |-> "left"]]
ScopeFinally(u, pr, ps, rd, ok) == StopEnter(u, "connect", pr, ps, rd, ok)

\* entering the scope: await self.stdio_wrapper.start(), whatever the state
\* of the channel and whatever start() returns; then
\* self.stdio_wrapper.stdout_reader, an attribute MCPStdioWrapper does not
\* have, raises AttributeError, and the "finally" runs stop() up to its
\* first await.  The scope is left when that stop() ends.
ScopeEnter(u, ok, tok) ==
  /\ life[u].pc \in {"idle", "done"}
  /\ ok => Len(procs) < launches
  /\ ScopeFinally(u, AfterStart(ok).process, AfterStart(ok).procs, AfterStart(ok).reader, tok)
  /\ UNCHANGED <<stdout, response_handlers, fut, message_queue, req, nreq, nlines, launches,
                 stream, routerVars, fn, taskVars, event_subscribers>>

(***************************************************************************)
(* Framed Channel: cancellation of a task inside send_request              *)
(***************************************************************************)
\* CancelledError is raised at the await the call is suspended in; it is
\* neither asyncio.TimeoutError nor an Exception, so no except clause of
\* send_request runs
Cancel(r) ==
  /\ req[r].pc \in {"drain", "wait"}
  /\ req' = [req EXCEPT ![r].pc = "done", ![r].tag = "cancelled"]
  /\ fut' = IF req[r].pc = "wait" /\ fut[req[r].id].state = "pending"
            THEN [fut EXCEPT ![req[r].id].state = "cancelled"]
            ELSE fut
  /\ UNCHANGED <<process, stdout_reader, stdout, response_handlers, message_queue, nreq,
                 nlines, lifeVars, stream, routerVars, fn, taskVars, event_subscribers>>

(***************************************************************************)
(* Framed Channel: get_event_stream, one pull of the generator per step    *)
(***************************************************************************)
Heartbeat == "heartbeat"

\* the consumer asks for the next item: the generator calls
\* wait_for(self.message_queue.get(), timeout=1.0)
StreamNext(k) ==
  /\ stream[k].pc \in {"idle", "yielded"}
  /\ stream[k].n < MaxPulls
  /\ stream' = [stream EXCEPT ![k].pc = "get", ![k].n = @ + 1]
  /\ UNCHANGED <<process, stdout_reader, stdout, response_handlers, fut, message_queue, req,
                 nreq, nlines, lifeVars, routerVars, fn, taskVars, event_subscribers>>

\* asyncio.Queue.get(): the item at the head of the queue
\* faulty variant: the newest item is taken
StreamItemNewest(q) == q[Len(q)]
StreamItem(q) == Head(q)

\* get() returns an item and the generator yields it
StreamYield(k) ==
  /\ stream[k].pc = "get"
  /\ message_queue # <<>>
  /\ stream' = [stream EXCEPT ![k].pc = "yielded", ![k].out = StreamItem(message_queue)]
  /\ message_queue' = Tail(message_queue)
  /\ UNCHANGED <<process, stdout_reader, stdout, response_handlers, fut, req, nreq, nlines,
                 lifeVars, routerVars, fn, taskVars, event_subscribers>>

\* the queue stayed empty for the poll interval: asyncio.TimeoutError, the
\* generator yields a heartbeat
StreamHeartbeat(k) ==
  /\ stream[k].pc = "get"
  /\ message_queue = <<>>
  /\ stream' = [stream EXCEPT ![k].pc = "yielded", ![k].out = Heartbeat]
  /\ UNCHANGED <<process, stdout_reader, stdout, response_handlers, fut, message_queue, req,
                 nreq, nlines, lifeVars, routerVars, fn, taskVars, event_subscribers>>

(***************************************************************************)
(* The prefix rules applied to one argument: add, strip after add, and     *)
(* strip of the argument itself                                            *)
(***************************************************************************)
NoFn == [kind |-> "none", prefix |-> <<>>, arg |-> <<>>, val |-> <<>>, pc |-> "none"]
Strings(chars, n) == UNION {[1..k -> chars] : k \in 0..n}

\* the arguments: names over 'a' and '_'; URIs 's://' + path over 'a', '/'
\* and the line break, and two strings that are not of that form; prefixes
\* over the same characters
FnNames == Strings({"a", "_"}, MaxNameLen)
FnUris ==
  {<<"s", ":", "/", "/">> \o path : path \in Strings({"a", "/", NL}, MaxPathLen)}
    \cup {<<"a">>, <<"s", ":", "/", "a">>}
FnArgs(kind) == IF kind = "resource" THEN FnUris ELSE FnNames
FnPrefixes(kind) ==
  IF kind = "resource" THEN Strings({"a", "/", NL}, MaxPrefixLen)
  ELSE Strings({"a", "_"}, MaxPrefixLen)

\* add_tool_prefix / add_prompt_prefix / add_resource_prefix of the argument
FnAdd ==
  /\ fn.pc = "in"
  /\ fn' = [fn EXCEPT !.val = AddKind(fn.kind, fn.prefix, fn.arg), !.pc = "added"]
  /\ UNCHANGED <<routerVars, chanVars, taskVars, event_subscribers>>

\* strip_*_prefix of what add_*_prefix returned
FnStrip ==
  /\ fn.pc = "added" /\ fn.val # InvalidUri
  /\ fn' = [fn EXCEPT !.val = StripKind(fn.kind, fn.prefix, fn.val), !.pc = "stripped"]
  /\ UNCHANGED <<routerVars, chanVars, taskVars, event_subscribers>>

\* strip_*_prefix of the argument itself
FnStripArg ==
  /\ fn.pc = "in"
  /\ fn' = [fn EXCEPT !.val = StripKind(fn.kind, fn.prefix, fn.arg), !.pc = "bare"]
  /\ UNCHANGED <<routerVars, chanVars, taskVars, event_subscribers>>

(***************************************************************************)
(* Specifications                                                          *)
(***************************************************************************)
Init ==
  /\ mounted_instances = <<>>
  /\ mobj = <<>>
  /\ sobj = <<>>
  /\ active_sessions = <<>>
  /\ store = <<>>
  /\ logs = <<>>
  /\ cache = EmptyCaches
  /\ cache_expiry = NoTime
  /\ now = 0
  /\ calls = [c \in Calls |-> IdleCall]
  /\ nops = 0
  /\ budget = MaxOps
  /\ process = 0
  /\ stdout_reader = "none"
  /\ stdout = <<>>
  /\ response_handlers = {}
  /\ fut = [i \in 1..(MaxReq + 1) |-> NoFut]
  /\ message_queue = <<>>
  /\ req = [r \in Callers |-> IdleReq]
  /\ nreq = 0
  /\ nlines = 0
  /\ procs = <<>>
  /\ life = [u \in Users |-> IdleLife]
  /\ launches = 1
  /\ stream = [k \in Consumers |-> IdleStream]
  /\ run = IdleRun
  /\ refresh_at = CacheDuration
  /\ event_subscribers = NoSubscribers
  /\ fn = NoFn

\* the Composite Router with the Session Registry behind it, used by two
\* caller tasks whose calls overlap, from construction
Next ==
  \/ \E c \in Calls, i \in Instances, p \in Prefixes, t \in Transports, v \in BOOLEAN :
       Mount(c, i, p, t, v)
  \/ \E c \in Calls, p \in Prefixes : Unmount(c, p)
  \/ \E c \in Calls, k \in Kinds : \E n \in CallInputs(k) : Call(c, k, n)
  \/ \E c \in Calls, k \in Kinds : List(c, k)
  \/ \E c \in Calls, ok \in BOOLEAN : Connect(c, ok)
  \/ \E c \in Calls, ok \in BOOLEAN : Initialize(c, ok)
  \/ \E c \in Calls, ok \in BOOLEAN : Hset(c, ok)
  \/ \E c \in Calls, ok \in BOOLEAN : Expire(c, ok)
  \/ \E c \in Calls : ReturnFromCreate(c)
  \/ \E c \in Calls, ok \in BOOLEAN : Touch(c, ok)
  \/ \E c \in Calls, ok \in BOOLEAN : SessionReply(c, ok)
  \/ \E c \in Calls, ok \in BOOLEAN : LogReply(c, ok)
  \/ \E c \in Calls, ok \in BOOLEAN : SessionClose(c, ok)
  \/ \E c \in Calls, ok \in BOOLEAN : Delete(c, ok)
Spec == Init /\ [][Next]_vars

\* the same router after mount("A", "a", t1, False) and mount("B", "a_b", t1,
\* False) have returned True
InitMounted ==
  /\ mounted_instances = <<[prefix |-> PA, mid |-> 1], [prefix |-> PAB, mid |-> 2]>>
  /\ mobj = <<[instance_id |-> "A", prefix |-> PA, transport |-> "t1", session |-> 0,
               session_id |-> NoKey, removed |-> FALSE],
              [instance_id |-> "B", prefix |-> PAB, transport |-> "t1", session |-> 0,
               session_id |-> NoKey, removed |-> FALSE]>>
  /\ sobj = <<>>
  /\ active_sessions = <<>>
  /\ store = <<>>
  /\ logs = <<>>
  /\ cache = EmptyCaches
  /\ cache_expiry = NoTime
  /\ now = 0
  /\ calls = [c \in Calls |-> IdleCall]
  /\ nops = 0
  /\ budget = MaxOps
  /\ process = 0
  /\ stdout_reader = "none"
  /\ stdout = <<>>
  /\ response_handlers = {}
  /\ fut = [i \in 1..(MaxReq + 1) |-> NoFut]
  /\ message_queue = <<>>
  /\ req = [r \in Callers |-> IdleReq]
  /\ nreq = 0
  /\ nlines = 0
  /\ procs = <<>>
  /\ life = [u \in Users |-> IdleLife]
  /\ launches = 1
  /\ stream = [k \in Consumers |-> IdleStream]
  /\ run = IdleRun
  /\ refresh_at = CacheDuration
  /\ event_subscribers = NoSubscribers
  /\ fn = NoFn
\* one caller making its calls one after the other on that router
NextSeq ==
  \/ \E i \in Instances, p \in Prefixes, t \in Transports, v \in BOOLEAN :
       Mount("c1", i, p, t, v)
  \/ \E p \in Prefixes : Unmount("c1", p)
  \/ \E k \in Kinds : \E n \in CallInputs(k) : Call("c1", k, n)
  \/ \E k \in Kinds : List("c1", k)
  \/ \E ok \in BOOLEAN : Connect("c1", ok)
  \/ \E ok \in BOOLEAN : Initialize("c1", ok)
  \/ \E ok \in BOOLEAN : Hset("c1", ok)
  \/ \E ok \in BOOLEAN : Expire("c1", ok)
  \/ ReturnFromCreate("c1")
  \/ \E ok \in BOOLEAN : Touch("c1", ok)
  \/ \E ok \in BOOLEAN : SessionReply("c1", ok)
  \/ \E ok \in BOOLEAN : LogReply("c1", ok)
  \/ \E ok \in BOOLEAN : SessionClose("c1", ok)
  \/ \E ok \in BOOLEAN : Delete("c1", ok)
SpecSeq == InitMounted /\ [][NextSeq]_vars

\* the router of InitMounted used by two caller tasks whose calls overlap,
\* get_status included
NextPar ==
  \/ \E c \in Calls, i \in Instances, p \in Prefixes, t \in Transports, v \in BOOLEAN :
       Mount(c, i, p, t, v)
  \/ \E c \in Calls, p \in Prefixes : Unmount(c, p)
  \/ \E c \in Calls, k \in Kinds : \E n \in CallInputs(k) : Call(c, k, n)
  \/ \E c \in Calls, k \in Kinds : List(c, k)
  \/ \E c \in Calls : Status(c)
  \/ \E c \in Calls, ok \in BOOLEAN : Connect(c, ok)
  \/ \E c \in Calls, ok \in BOOLEAN : Initialize(c, ok)
  \/ \E c \in Calls, ok \in BOOLEAN : Hset(c, ok)
  \/ \E c \in Calls, ok \in BOOLEAN : Expire(c, ok)
  \/ \E c \in Calls : ReturnFromCreate(c)
  \/ \E c \in Calls, ok \in BOOLEAN : Touch(c, ok)
  \/ \E c \in Calls, ok \in BOOLEAN : SessionReply(c, ok)
  \/ \E c \in Calls, ok \in BOOLEAN : LogReply(c, ok)
  \/ \E c \in Calls, ok \in BOOLEAN : SessionClose(c, ok)
  \/ \E c \in Calls, ok \in BOOLEAN : Delete(c, ok)
SpecPar == InitMounted /\ [][NextPar]_vars

\* a router after mount("A", "a", t1, False) on which caller c1 has started
\* list_tools(): the cache was found stale, its expiry was set, and the call
\* is suspended in create_session for the only mount
InitListing ==
  /\ mounted_instances = <<[prefix |-> PA, mid |-> 1]>>
  /\ mobj = <<[instance_id |-> "A", prefix |-> PA, transport |-> "t1", session |-> 0,
               session_id |-> NoKey, removed |-> FALSE]>>
  /\ sobj = <<>>
  /\ active_sessions = <<>>
  /\ store = <<>>
  /\ logs = <<>>
  /\ cache = EmptyCaches
  /\ cache_expiry = CacheDuration
  /\ now = 0
  /\ calls = [c \in Calls |->
                IF c = "c1"
                THEN [IdleCall EXCEPT !.n = 1, !.op = "list", !.pc = "connect", !.kind = "tool",
                                      !.mid = 1, !.key = SessionId("A", "t1"), !.idx = 1,
                                      !.size = 1, !.seen = {PA}, !.mlen = 1]
                ELSE IdleCall]
  /\ nops = 1
  /\ budget = 1 + MaxRaceOps
  /\ process = 0
  /\ stdout_reader = "none"
  /\ stdout = <<>>
  /\ response_handlers = {}
  /\ fut = [i \in 1..(MaxReq + 1) |-> NoFut]
  /\ message_queue = <<>>
  /\ req = [r \in Callers |-> IdleReq]
  /\ nreq = 0
  /\ nlines = 0
  /\ procs = <<>>
  /\ life = [u \in Users |-> IdleLife]
  /\ launches = 1
  /\ stream = [k \in Consumers |-> IdleStream]
  /\ run = IdleRun
  /\ refresh_at = CacheDuration
  /\ event_subscribers = NoSubscribers
  /\ fn = NoFn
\* while that listing is in progress and after it, the callers unmount,
\* mount "a_b" without verification and list tools
NextListing ==
  \/ \E c \in Calls : Mount(c, "B", PAB, "t1", FALSE)
  \/ \E c \in Calls, p \in Prefixes : Unmount(c, p)
  \/ \E c \in Calls : List(c, "tool")
  \/ \E c \in Calls, ok \in BOOLEAN : Connect(c, ok)
  \/ \E c \in Calls, ok \in BOOLEAN : Initialize(c, ok)
  \/ \E c \in Calls, ok \in BOOLEAN : Hset(c, ok)
  \/ \E c \in Calls, ok \in BOOLEAN : Expire(c, ok)
  \/ \E c \in Calls : ReturnFromCreate(c)
  \/ \E c \in Calls, ok \in BOOLEAN : Touch(c, ok)
  \/ \E c \in Calls, ok \in BOOLEAN : SessionReply(c, ok)
  \/ \E c \in Calls, ok \in BOOLEAN : SessionClose(c, ok)
  \/ \E c \in Calls, ok \in BOOLEAN : Delete(c, ok)
SpecListing == InitListing /\ [][NextListing]_vars

\* a constructed registry with no session; the caller may start one call
\* more than a router caller
InitRegistry ==
  /\ mounted_instances = <<>>
  /\ mobj = <<>>
  /\ sobj = <<>>
  /\ active_sessions = <<>>
  /\ store = <<>>
  /\ logs = <<>>
  /\ cache = EmptyCaches
  /\ cache_expiry = NoTime
  /\ now = 0
  /\ calls = [c \in Calls |-> IdleCall]
  /\ nops = 0
  /\ budget = MaxOps + 1
  /\ process = 0
  /\ stdout_reader = "none"
  /\ stdout = <<>>
  /\ response_handlers = {}
  /\ fut = [i \in 1..(MaxReq + 1) |-> NoFut]
  /\ message_queue = <<>>
  /\ req = [r \in Callers |-> IdleReq]
  /\ nreq = 0
  /\ nlines = 0
  /\ procs = <<>>
  /\ life = [u \in Users |-> IdleLife]
  /\ launches = 1
  /\ stream = [k \in Consumers |-> IdleStream]
  /\ run = IdleRun
  /\ refresh_at = CacheDuration
  /\ event_subscribers = NoSubscribers
  /\ fn = NoFn
\* the Session Registry used directly by one caller task, with its sweep
\* ticks, its shutdown and the clock; the operations do not overlap
NextRegistry ==
  \/ \E i \in Instances, t \in Transports : CreateSession("c1", i, t)
  \/ \E k \in SessionKeys : GetSession("c1", k)
  \/ \E k \in SessionKeys : CloseSession("c1", k)
  \/ SweepTick("c1")
  \/ Shutdown("c1")
  \/ Tick
  \/ \E ok \in BOOLEAN : Connect("c1", ok)
  \/ \E ok \in BOOLEAN : Initialize("c1", ok)
  \/ \E ok \in BOOLEAN : Hset("c1", ok)
  \/ \E ok \in BOOLEAN : Expire("c1", ok)
  \/ ReturnFromCreate("c1")
  \/ \E ok \in BOOLEAN : Touch("c1", ok)
  \/ \E ok \in BOOLEAN : Hgetall("c1", ok)
  \/ \E ok \in BOOLEAN : SessionClose("c1", ok)
  \/ \E ok \in BOOLEAN : Delete("c1", ok)
SpecRegistry == InitRegistry /\ [][NextRegistry]_vars

\* the Session Registry of InitRegistry used by one task that creates
\* sessions and looks them up, while time passes and the sweep runs in
\* another task; the store answers the calls that create a session
NextSweep ==
  \/ \E i \in Instances, t \in Transports : CreateSession("c1", i, t)
  \/ \E k \in SessionKeys : GetSession("c1", k)
  \/ \E ok \in BOOLEAN : Connect("c1", ok)
  \/ Initialize("c1", TRUE)
  \/ Hset("c1", TRUE)
  \/ Expire("c1", TRUE)
  \/ ReturnFromCreate("c1")
  \/ \E ok \in BOOLEAN : Touch("c1", ok)
  \/ SweepTick("c2")
  \/ \E ok \in BOOLEAN : Hgetall("c2", ok)
  \/ \E ok \in BOOLEAN : SessionClose("c2", ok)
  \/ \E ok \in BOOLEAN : Delete("c2", ok)
  \/ Wait
SpecSweep == InitRegistry /\ [][NextSweep]_vars

\* a router after mount("A", "a_b", t1, False) and mount("A", "a", t1, False)
\* have returned True: the same instance, through the same transport object,
\* under two prefixes.  One caller, which may start one call more than the
\* callers of the other routers.
InitShared ==
  /\ mounted_instances = <<[prefix |-> PAB, mid |-> 1], [prefix |-> PA, mid |-> 2]>>
  /\ mobj = <<[instance_id |-> "A", prefix |-> PAB, transport |-> "t1", session |-> 0,
               session_id |-> NoKey, removed |-> FALSE],
              [instance_id |-> "A", prefix |-> PA, transport |-> "t1", session |-> 0,
               session_id |-> NoKey, removed |-> FALSE]>>
  /\ sobj = <<>>
  /\ active_sessions = <<>>
  /\ store = <<>>
  /\ logs = <<>>
  /\ cache = EmptyCaches
  /\ cache_expiry = NoTime
  /\ now = 0
  /\ calls = [c \in Calls |-> IdleCall]
  /\ nops = 0
  /\ budget = MaxOps + 1
  /\ process = 0
  /\ stdout_reader = "none"
  /\ stdout = <<>>
  /\ response_handlers = {}
  /\ fut = [i \in 1..(MaxReq + 1) |-> NoFut]
  /\ message_queue = <<>>
  /\ req = [r \in Callers |-> IdleReq]
  /\ nreq = 0
  /\ nlines = 0
  /\ procs = <<>>
  /\ life = [u \in Users |-> IdleLife]
  /\ launches = 1
  /\ stream = [k \in Consumers |-> IdleStream]
  /\ run = IdleRun
  /\ refresh_at = CacheDuration
  /\ event_subscribers = NoSubscribers
  /\ fn = NoFn
NextShared ==
  \/ \E p \in Prefixes : Unmount("c1", p)
  \/ \E n \in CallInputs("tool") : Call("c1", "tool", n)
  \/ \E ok \in BOOLEAN : Connect("c1", ok)
  \/ \E ok \in BOOLEAN : Initialize("c1", ok)
  \/ \E ok \in BOOLEAN : Hset("c1", ok)
  \/ \E ok \in BOOLEAN : Expire("c1", ok)
  \/ ReturnFromCreate("c1")
  \/ \E ok \in BOOLEAN : Touch("c1", ok)
  \/ \E ok \in BOOLEAN : SessionReply("c1", ok)
  \/ \E ok \in BOOLEAN : LogReply("c1", ok)
  \/ \E ok \in BOOLEAN : SessionClose("c1", ok)
  \/ \E ok \in BOOLEAN : Delete("c1", ok)
SpecShared == InitShared /\ [][NextShared]_vars

\* a router after mount("A", "a", t1, False) has returned True, whose mount
\* is used every UseInterval seconds by one task while the sweep of the
\* Session Registry runs in another
InitKeepAlive ==
  /\ mounted_instances = <<[prefix |-> PA, mid |-> 1]>>
  /\ mobj = <<[instance_id |-> "A", prefix |-> PA, transport |-> "t1", session |-> 0,
               session_id |-> NoKey, removed |-> FALSE]>>
  /\ sobj = <<>>
  /\ active_sessions = <<>>
  /\ store = <<>>
  /\ logs = <<>>
  /\ cache = EmptyCaches
  /\ cache_expiry = NoTime
  /\ now = 0
  /\ calls = [c \in Calls |-> IdleCall]
  /\ nops = 0
  /\ budget = MaxOps + MaxTicks
  /\ process = 0
  /\ stdout_reader = "none"
  /\ stdout = <<>>
  /\ response_handlers = {}
  /\ fut = [i \in 1..(MaxReq + 1) |-> NoFut]
  /\ message_queue = <<>>
  /\ req = [r \in Callers |-> IdleReq]
  /\ nreq = 0
  /\ nlines = 0
  /\ procs = <<>>
  /\ life = [u \in Users |-> IdleLife]
  /\ launches = 1
  /\ stream = [k \in Consumers |-> IdleStream]
  /\ run = IdleRun
  /\ refresh_at = CacheDuration
  /\ event_subscribers = NoSubscribers
  /\ fn = NoFn
NextKeepAlive ==
  \/ \E n \in CallInputs("tool") : Call("c1", "tool", n)
  \/ \E ok \in BOOLEAN : Connect("c1", ok)
  \/ \E ok \in BOOLEAN : Initialize("c1", ok)
  \/ \E ok \in BOOLEAN : Hset("c1", ok)
  \/ \E ok \in BOOLEAN : Expire("c1", ok)
  \/ ReturnFromCreate("c1")
  \/ \E ok \in BOOLEAN : Touch("c1", ok)
  \/ \E ok \in BOOLEAN : SessionReply("c1", ok)
  \/ \E ok \in BOOLEAN : LogReply("c1", ok)
  \/ SweepTick("c2")
  \/ \E ok \in BOOLEAN : Hgetall("c2", ok)
  \/ \E ok \in BOOLEAN : SessionClose("c2", ok)
  \/ \E ok \in BOOLEAN : Delete("c2", ok)
  \/ Elapse
SpecKeepAlive == InitKeepAlive /\ [][NextKeepAlive]_vars

\* a router after mount("A", "a", t1, False) has returned True, inside its
\* run() scope: two tasks list tools and resources while time passes and
\* the cache refresh loop runs; a listing's session may fail to connect or to
\* answer, the store answers
InitCache ==
  /\ mounted_instances = <<[prefix |-> PA, mid |-> 1]>>
  /\ mobj = <<[instance_id |-> "A", prefix |-> PA, transport |-> "t1", session |-> 0,
               session_id |-> NoKey, removed |-> FALSE]>>
  /\ sobj = <<>>
  /\ active_sessions = <<>>
  /\ store = <<>>
  /\ logs = <<>>
  /\ cache = EmptyCaches
  /\ cache_expiry = NoTime
  /\ now = 0
  /\ calls = [c \in Calls |-> IdleCall]
  /\ nops = 0
  /\ budget = MaxOps
  /\ process = 0
  /\ stdout_reader = "none"
  /\ stdout = <<>>
  /\ response_handlers = {}
  /\ fut = [i \in 1..(MaxReq + 1) |-> NoFut]
  /\ message_queue = <<>>
  /\ req = [r \in Callers |-> IdleReq]
  /\ nreq = 0
  /\ nlines = 0
  /\ procs = <<>>
  /\ life = [u \in Users |-> IdleLife]
  /\ launches = 1
  /\ stream = [k \in Consumers |-> IdleStream]
  /\ run = IdleRun
  /\ refresh_at = CacheDuration
  /\ event_subscribers = NoSubscribers
  /\ fn = NoFn
NextCache ==
  \/ \E c \in Calls, k \in {"tool", "resource"} : List(c, k)
  \/ \E c \in Calls, ok \in BOOLEAN : Connect(c, ok)
  \/ \E c \in Calls : Initialize(c, TRUE)
  \/ \E c \in Calls : Hset(c, TRUE)
  \/ \E c \in Calls : Expire(c, TRUE)
  \/ \E c \in Calls : ReturnFromCreate(c)
  \/ \E c \in Calls : Touch(c, TRUE)
  \/ \E c \in Calls, ok \in BOOLEAN : SessionReply(c, ok)
  \/ Wait
  \/ CacheRefresh
SpecCache == InitCache /\ [][NextCache]_vars

\* a Session Registry inside its run() scope that holds two sessions: the
\* one of A was created at time 0; the record of the one of B, created
\* earlier, was dropped by the store when its expiry was reached and written
\* again, without expiry, by a get_session at time 0.  The sweep loop runs
\* as a task of its own while another task leaves the scope.
InitRun ==
  /\ mounted_instances = <<>>
  /\ mobj = <<>>
  /\ sobj = <<[inst |-> "A", scope |-> "exited", closed |-> FALSE],
              [inst |-> "B", scope |-> "exited", closed |-> FALSE]>>
  /\ active_sessions = MapSet(MapSet(<<>>, SessionId("A", "t1"), 1), SessionId("B", "t1"), 2)
  /\ store = StoreTouch(StoreExpire(StoreHset(<<>>, SessionId("A", "t1"), 0),
                                    SessionId("A", "t1"), 0),
                        SessionId("B", "t1"), 0)
  /\ logs = <<>>
  /\ cache = EmptyCaches
  /\ cache_expiry = NoTime
  /\ now = 0
  /\ calls = [c \in Calls |-> IdleCall]
  /\ nops = 0
  /\ budget = MaxOps
  /\ process = 0
  /\ stdout_reader = "none"
  /\ stdout = <<>>
  /\ response_handlers = {}
  /\ fut = [i \in 1..(MaxReq + 1) |-> NoFut]
  /\ message_queue = <<>>
  /\ req = [r \in Callers |-> IdleReq]
  /\ nreq = 0
  /\ nlines = 0
  /\ procs = <<>>
  /\ life = [u \in Users |-> IdleLife]
  /\ launches = 1
  /\ stream = [k \in Consumers |-> IdleStream]
  /\ run = IdleRun
  /\ refresh_at = CacheDuration
  /\ event_subscribers = NoSubscribers
  /\ fn = NoFn
NextRun ==
  \/ LoopTick("c2")
  \/ \E ok \in BOOLEAN : Hgetall("c2", ok)
  \/ \E ok \in BOOLEAN : SessionClose("c2", ok)
  \/ \E ok \in BOOLEAN : Delete("c2", ok)
  \/ LoopCatch("c2")
  \/ Tick
  \/ \E how \in {"return", "raise"} : RunLeave("c1", how)
  \/ \E ok \in BOOLEAN : SessionClose("c1", ok)
  \/ \E ok \in BOOLEAN : Delete("c1", ok)
  \/ RunJoin("c1")
  \/ LoopCancel("c2")
  \/ RunExited
\* the event loop runs every task that can run: the sleep of the sweep loop
\* ends, the store and the sessions answer or fail
LoopStep(c) ==
  \/ LoopTick(c)
  \/ \E ok \in BOOLEAN : Hgetall(c, ok)
  \/ \E ok \in BOOLEAN : SessionClose(c, ok)
  \/ \E ok \in BOOLEAN : Delete(c, ok)
  \/ LoopCatch(c)
RunStep(c) ==
  \/ \E ok \in BOOLEAN : SessionClose(c, ok)
  \/ \E ok \in BOOLEAN : Delete(c, ok)
  \/ RunJoin(c)
  \/ RunExited
SpecRun ==
  /\ InitRun /\ [][NextRun]_vars
  /\ WF_vars(LoopStep("c2"))
  /\ WF_vars(RunStep("c1"))
  /\ WF_vars(LoopCancel("c2"))

\* a MountedInstance with any of the prefixes, its rules applied to any of
\* the arguments
InitPrefix ==
  /\ mounted_instances = <<>>
  /\ mobj = <<>>
  /\ sobj = <<>>
  /\ active_sessions = <<>>
  /\ store = <<>>
  /\ logs = <<>>
  /\ cache = EmptyCaches
  /\ cache_expiry = NoTime
  /\ now = 0
  /\ calls = [c \in Calls |-> IdleCall]
  /\ nops = 0
  /\ budget = MaxOps
  /\ process = 0
  /\ stdout_reader = "none"
  /\ stdout = <<>>
  /\ response_handlers = {}
  /\ fut = [i \in 1..(MaxReq + 1) |-> NoFut]
  /\ message_queue = <<>>
  /\ req = [r \in Callers |-> IdleReq]
  /\ nreq = 0
  /\ nlines = 0
  /\ procs = <<>>
  /\ life = [u \in Users |-> IdleLife]
  /\ launches = 1
  /\ stream = [k \in Consumers |-> IdleStream]
  /\ run = IdleRun
  /\ refresh_at = CacheDuration
  /\ event_subscribers = NoSubscribers
  /\ \E kind \in Kinds : \E prefix \in FnPrefixes(kind), arg \in FnArgs(kind) :
       fn = [NoFn EXCEPT !.kind = kind, !.prefix = prefix, !.arg = arg, !.val = arg,
                         !.pc = "in"]
NextPrefix ==
  \/ FnAdd
  \/ FnStrip
  \/ FnStripArg
SpecPrefix == InitPrefix /\ [][NextPrefix]_vars

\* one Framed Channel with its callers and its subprocess
NextChannel ==
  \/ \E ok \in BOOLEAN : ChStart(ok)
  \/ \E l \in Lines : ProcWrite(l)
  \/ \E r \in Callers : SendRequest(r)
  \/ \E r \in Callers, ok \in BOOLEAN : Drain(r, ok)
  \/ \E r \in Callers : Deliver(r)
  \/ \E r \in Callers : Timeout(r)
  \/ \E r \in Callers : TimeoutRaise(r)
  \/ ReadLine
  \/ ReaderEof
  \/ \E p \in 1..MaxStarts : ProcExit(p)
  \/ StopCall("u1", TRUE)
  \/ StopWaited("u1")
SpecChannel == Init /\ [][NextChannel]_vars

\* one Framed Channel with push subscribers: the reader task and the
\* callbacks it awaits are scheduled whenever they can run
SubLines == {l \in Lines : l.t # "badutf8"}
NextSubscribers ==
  \/ \E ok \in BOOLEAN : ChStart(ok)
  \/ \E l \in SubLines : ProcWrite(l)
  \/ SendRequest("r1")
  \/ \E ok \in BOOLEAN : Drain("r1", ok)
  \/ Deliver("r1")
  \/ Timeout("r1")
  \/ TimeoutRaise("r1")
  \/ ReadLine
  \/ \E s \in Subscribers : Subscribe(s)
  \/ \E o \in Outcomes : NotifyCall(o)
  \/ NotifyReturn
EmitStep == \E o \in Outcomes : NotifyCall(o)
SpecSubscribers ==
  Init /\ [][NextSubscribers]_vars
       /\ WF_vars(ReadLine) /\ WF_vars(EmitStep) /\ WF_vars(NotifyReturn)

\* the same channel whose calling tasks can be cancelled
NextCancel ==
  \/ \E ok \in BOOLEAN : ChStart(ok)
  \/ \E l \in Lines : ProcWrite(l)
  \/ \E r \in Callers : SendRequest(r)
  \/ \E r \in Callers, ok \in BOOLEAN : Drain(r, ok)
  \/ \E r \in Callers : Deliver(r)
  \/ \E r \in Callers : Timeout(r)
  \/ \E r \in Callers : TimeoutRaise(r)
  \/ \E r \in Callers : Cancel(r)
  \/ ReadLine
  \/ ReaderEof
  \/ \E p \in 1..MaxStarts : ProcExit(p)
  \/ StopCall("u1", TRUE)
  \/ StopWaited("u1")
SpecCancel == Init /\ [][NextCancel]_vars

\* a constructed channel that may launch MaxStarts subprocesses
InitLifecycle ==
  /\ mounted_instances = <<>>
  /\ mobj = <<>>
  /\ sobj = <<>>
  /\ active_sessions = <<>>
  /\ store = <<>>
  /\ logs = <<>>
  /\ cache = EmptyCaches
  /\ cache_expiry = NoTime
  /\ now = 0
  /\ calls = [c \in Calls |-> IdleCall]
  /\ nops = 0
  /\ budget = MaxOps
  /\ process = 0
  /\ stdout_reader = "none"
  /\ stdout = <<>>
  /\ response_handlers = {}
  /\ fut = [i \in 1..(MaxReq + 1) |-> NoFut]
  /\ message_queue = <<>>
  /\ req = [r \in Callers |-> IdleReq]
  /\ nreq = 0
  /\ nlines = 0
  /\ procs = <<>>
  /\ life = [u \in Users |-> IdleLife]
  /\ launches = MaxStarts
  /\ stream = [k \in Consumers |-> IdleStream]
  /\ run = IdleRun
  /\ refresh_at = CacheDuration
  /\ event_subscribers = NoSubscribers
  /\ fn = NoFn
\* the life cycle of that channel: start(), stop() and connect_session
\* scopes of two tasks, overlapping, and the subprocesses
NextLifecycle ==
  \/ \E ok \in BOOLEAN : ChStart(ok)
  \/ \E p \in 1..MaxStarts : ProcExit(p)
  \/ ReaderEof
  \/ \E u \in Users, ok \in BOOLEAN : StopCall(u, ok)
  \/ \E u \in Users : StopWaited(u)
  \/ \E u \in Users : StopGrace(u)
  \/ \E u \in Users : StopKilled(u)
  \/ \E u \in Users : StopCancel(u)
  \/ \E u \in Users, ok \in BOOLEAN, tok \in BOOLEAN : ScopeEnter(u, ok, tok)
\* the event loop runs a task whose wait has ended or whose timer has
\* fired, and a subprocess that was sent SIGKILL exits
KilledExit(p) == ProcExit(p) /\ procs[p].signal = "kill"
StopStep(u) == StopWaited(u) \/ StopGrace(u) \/ StopKilled(u)
SpecLifecycle ==
  /\ InitLifecycle /\ [][NextLifecycle]_vars
  /\ \A u \in Users : WF_vars(StopStep(u))
  /\ \A p \in 1..MaxStarts : WF_vars(KilledExit(p))

\* a channel, its subprocess and the consumers of its event stream
NextStream ==
  \/ \E ok \in BOOLEAN : ChStart(ok)
  \/ \E l \in Lines : ProcWrite(l)
  \/ ReadLine
  \/ ReaderEof
  \/ \E p \in 1..MaxStarts : ProcExit(p)
  \/ \E k \in Consumers : StreamNext(k)
  \/ \E k \in Consumers : StreamYield(k)
  \/ \E k \in Consumers : StreamHeartbeat(k)
\* the event loop runs a generator whose get() has returned or whose poll
\* timer has fired
StreamStep(k) == StreamYield(k) \/ StreamHeartbeat(k)
SpecStream ==
  /\ Init /\ [][NextStream]_vars
  /\ \A k \in Consumers : WF_vars(StreamStep(k))

(***************************************************************************)
(* Properties                                                              *)
(***************************************************************************)
\* a call that has reached its session call (or went past it)
Forwarded(rec) == rec.pc \in {"sess", "log"} \/ rec.sres # "none"
\* step in which caller c starts a new call
Starts(c) == nops' = nops + 1 /\ calls'[c].n = nops'

\* C1: every session held in the active-session map is live, i.e. the
\* connect_session scope that produced it has not been exited.
C1_RegisteredSessionIsLive ==
  \A k \in DOMAIN active_sessions : sobj[active_sessions[k]].scope = "open"

\* C2: a send_request call that returns a response returns the one whose id
\* is the id it sent, and a future is only ever resolved with the response
\* carrying its own id, whatever the order in which the lines arrive.
C2_MatchedById ==
  /\ \A r \in Callers : req[r].pc = "done" /\ req[r].tag = "response" => req[r].resp.id = req[r].id
  /\ \A i \in 1..nreq : fut[i].state = "result" => fut[i].resp.id = i
\* two requests are outstanding and the later one is answered first
C2_Witness ==
  \E r1, r2 \in Callers :
    /\ req[r1].id # 0 /\ req[r1].id < req[r2].id
    /\ req[r2].pc = "done" /\ req[r2].tag = "response"
    /\ req[r1].pc = "wait" /\ fut[req[r1].id].state = "pending"
    /\ req[r1].id \in response_handlers

\* C3: a request whose timer fires fails with the timeout error and its
\* pending entry is gone; reading a response line for the id of a request
\* that has timed out changes no pending entry, no future and no caller,
\* emits no event and leaves the stdout reader running.
LateResponseRead ==
  /\ stdout # <<>>
  /\ stdout' = Tail(stdout)
  /\ Head(stdout).t = "resp"
  /\ \E r \in Callers : req[r].pc = "done" /\ req[r].tag = "timeout" /\ req[r].id = Head(stdout).id
C3_TimeoutAndLateResponse ==
  /\ [](\A r \in Callers :
          req[r].pc = "done" /\ req[r].tag = "timeout" => req[r].id \notin response_handlers)
  /\ [][\A r \in Callers :
          req[r].pc = "timedout" /\ req'[r] # req[r]
            => req'[r].pc = "done" /\ req'[r].tag = "timeout"]_vars
  /\ [][LateResponseRead
          => UNCHANGED <<response_handlers, fut, message_queue, req, stdout_reader>>]_vars
\* a request has timed out and a response line carrying its id is about to
\* be read by the running reader
C3_Witness ==
  \E r \in Callers :
    /\ req[r].pc = "done" /\ req[r].tag = "timeout"
    /\ stdout # <<>> /\ Head(stdout).t = "resp" /\ Head(stdout).id = req[r].id
    /\ stdout_reader = "running"

\* C4: for every set of mounted prefixes and every qualified tool, prompt or
\* resource name at most one mounted instance matches the name.
Matching(kind, name) ==
  {i \in 1..Len(mounted_instances) : MatchKind(kind, mounted_instances[i].prefix, name)}
C4_AtMostOneMatch ==
  \A k \in Kinds : \A n \in CallInputs(k) : Cardinality(Matching(k, n)) <= 1

\* C5: a call_tool / get_prompt whose name is in the current listing, under
\* a prefix that is still mounted, is forwarded to the mount with that
\* prefix and with the local name that mount reported (the listed name
\* without "prefix_").
C5_ListedNameRoutesToItsMount ==
  \A c \in Calls :
    (calls[c].op = "call" /\ calls[c].kind \in {"tool", "prompt"} /\ Forwarded(calls[c])
       /\ cache[calls[c].kind].set)
    => \A j \in 1..Len(cache[calls[c].kind].items) :
         LET item == cache[calls[c].kind].items[j]
         IN (item.name = calls[c].name /\ item.prefix \in MountedPrefixes)
            => /\ mobj[calls[c].mid].prefix = item.prefix
               /\ calls[c].fwd = SubSeq(item.name, Len(item.prefix) + 2, Len(item.name))

\* C6: a mount call for a prefix that is already mounted returns False in
\* the step it starts and changes nothing: the mount map, the
\* MountedInstance and session objects, the active-session map, the store,
\* the caches and the log are as before.
C6_DuplicateMountRejected ==
  [][\A c \in Calls :
       (Starts(c) /\ calls'[c].op = "mount" /\ calls'[c].name \in MountedPrefixes)
       => /\ calls'[c].pc = "done" /\ calls'[c].tag = "False"
          /\ UNCHANGED <<mounted_instances, mobj, sobj, active_sessions, store, logs,
                         cache, cache_expiry>>]_vars
\* a duplicate mount was rejected while a listing was cached and the first
\* mount had a session
C6_Witness ==
  \E c \in Calls :
    /\ calls[c].op = "mount" /\ calls[c].pc = "done" /\ calls[c].tag = "False"
    /\ calls[c].mid = 0 /\ calls[c].name \in MountedPrefixes
    /\ cache["tool"].set /\ cache["tool"].items # <<>>
    /\ mobj[DictGet(mounted_instances, calls[c].name)].session # 0

\* C7: a MountedInstance registered under a prefix is never replaced by
\* another one while the prefix stays mounted.
C7_MountNeverOverwritten ==
  [][\A i \in 1..Len(mounted_instances) : \A j \in 1..Len(mounted_instances') :
       mounted_instances[i].prefix = mounted_instances'[j].prefix
       => mounted_instances[i].mid = mounted_instances'[j].mid]_vars

\* C8: a mount attempt that returned False after its probe failed left no
\* session of its own behind: its session id is neither in the
\* active-session map nor in the store (no other call uses that id).
C8_FailedMountLeavesNothing ==
  \A c \in Calls :
    (/\ calls[c].op = "mount" /\ calls[c].pc = "done" /\ calls[c].tag = "False"
     /\ calls[c].mid # 0
     /\ \A d \in Calls \ {c} : calls[d].key # calls[c].key)
    => /\ calls[c].key \notin DOMAIN active_sessions
       /\ calls[c].key \notin DOMAIN store
       /\ DictGet(mounted_instances, calls[c].name) # calls[c].mid

\* C9: a finished call_tool whose session call returned r returned r, and
\* one whose session call raised raised that error.
C9_OutcomeIsSessionOutcome ==
  \A c \in Calls :
    (calls[c].op = "call" /\ calls[c].kind = "tool" /\ calls[c].pc = "done")
    => /\ calls[c].sres = "ok"
            => calls[c].tag = "result" /\ calls[c].val = SessionResult(calls[c])
       /\ calls[c].sres = "raise"
            => calls[c].tag = "raise" /\ calls[c].val = <<"UpstreamError">>

\* C10: call_tool, get_prompt and read_resource with a name that begins with
\* no mounted prefix followed by the separator fail with not-found in the
\* step they start; no session is created or contacted, nothing is logged,
\* and the mount map and the caches are unchanged.
BeginsWithPrefix(kind, prefix, name) ==
  IF kind = "resource"
  THEN prefix # <<>> /\ UriMatches(name) /\ StartsWith(UriPath(name), prefix \o <<"/">>)
  ELSE StartsWith(name, prefix \o <<"_">>)
C10_UnmatchedNameNotFound ==
  [][\A c \in Calls :
       (/\ Starts(c) /\ calls'[c].op = "call"
        /\ \A p \in MountedPrefixes : ~BeginsWithPrefix(calls'[c].kind, p, calls'[c].name))
       => /\ calls'[c].pc = "done" /\ calls'[c].tag = "raise" /\ calls'[c].val = <<"NotFound">>
          /\ UNCHANGED <<mounted_instances, mobj, sobj, active_sessions, store, logs,
                         cache, cache_expiry>>]_vars
\* a call was answered not-found on a router that has mounts, a live
\* session and a cached listing
C10_Witness ==
  \E c \in Calls :
    /\ calls[c].op = "call" /\ calls[c].pc = "done"
    /\ calls[c].tag = "raise" /\ calls[c].val = <<"NotFound">>
    /\ mounted_instances # <<>>
    /\ DOMAIN active_sessions # {}
    /\ \E k \in Kinds : cache[k].set /\ cache[k].items # <<>>

\* step in which the call of caller c returns or raises
Finishes(c) ==
  /\ calls'[c].pc = "done"
  /\ calls[c].pc # "done" \/ calls'[c].n # calls[c].n \/ calls'[c].op # calls[c].op
Range(seq) == {seq[i] : i \in 1..Len(seq)}

\* C11: once unmount(p) of a mounted prefix has returned True, p is not in
\* the mount map, the session id the mount held is neither in the
\* active-session map nor in the store, and all caches are invalidated; a
\* call_tool started afterwards with a name that begins with p and the
\* separator fails with not-found; unmount of a prefix that is not mounted
\* returns False in the step it starts and changes nothing.
C11_UnmountRemovesMount ==
  /\ [](\A c \in Calls :
          (calls[c].op = "unmount" /\ calls[c].pc = "done" /\ calls[c].tag = "True")
          => /\ calls[c].name \notin MountedPrefixes
             /\ calls[c].key # NoKey
                  => calls[c].key \notin DOMAIN active_sessions /\ calls[c].key \notin DOMAIN store
             /\ cache = EmptyCaches /\ cache_expiry = NoTime)
  /\ [][\A c \in Calls :
          (/\ Starts(c) /\ calls'[c].op = "call" /\ calls'[c].kind = "tool"
           /\ \E p \in RemovedPrefixes : BeginsWithPrefix("tool", p, calls'[c].name))
          => calls'[c].pc = "done" /\ calls'[c].tag = "raise" /\ calls'[c].val = <<"NotFound">>]_vars
  /\ [][\A c \in Calls :
          (Starts(c) /\ calls'[c].op = "unmount" /\ calls'[c].name \notin MountedPrefixes)
          => /\ calls'[c].pc = "done" /\ calls'[c].tag = "False"
             /\ UNCHANGED <<mounted_instances, mobj, sobj, active_sessions, store, logs,
                            cache, cache_expiry>>]_vars

Qualified(kind, prefix, local) ==
  IF kind = "resource"
  THEN UriProtocol(local) \o prefix \o <<"/">> \o UriPath(local)
  ELSE prefix \o <<"_">> \o local
C13_ListingIsolatesFailures ==
  \A c \in Calls :
    (calls[c].op = "list" /\ calls[c].pc = "done" /\ calls[c].idx > 0)
    => /\ calls[c].tag = "list"
       /\ \A j \in 1..Len(calls[c].probed) :
            LET m == mobj[calls[c].probed[j].mid]
            IN IF calls[c].probed[j].ok
               THEN \A local \in Range(LocalItems(m.instance_id, calls[c].kind)) :
                      [name |-> Qualified(calls[c].kind, m.prefix, local),
                       instance_id |-> m.instance_id, prefix |-> m.prefix]
                        \in Range(calls[c].val)
               ELSE \A item \in Range(calls[c].val) : item.prefix # m.prefix

\* C14: a list_tools() rebuild in which every mount answered returns
\* exactly the tools of all mounted instances, each named prefix + "_" +
\* local name and tagged with the instance id and prefix of its mount, each
\* once.
ToolUnion ==
  UNION {{[name |-> mounted_instances[i].prefix \o <<"_">> \o n,
           instance_id |-> mobj[mounted_instances[i].mid].instance_id,
           prefix |-> mounted_instances[i].prefix]
            : n \in Range(LocalNames(mobj[mounted_instances[i].mid].instance_id))}
         : i \in 1..Len(mounted_instances)}
AllAnswered(rec) ==
  /\ rec.op = "list" /\ rec.pc = "done" /\ rec.idx > 0
  /\ Len(rec.probed) = Len(mounted_instances)
  /\ \A j \in 1..Len(rec.probed) : rec.probed[j].ok
C14_ListToolsIsUnion ==
  \A c \in Calls :
    (AllAnswered(calls[c]) /\ calls[c].kind = "tool")
    => /\ calls[c].tag = "list"
       /\ Range(calls[c].val) = ToolUnion
       /\ Len(calls[c].val) = Cardinality(ToolUnion)
\* list_tools() was rebuilt from two answering mounts of different instances
C14_Witness ==
  \E c \in Calls :
    /\ AllAnswered(calls[c]) /\ calls[c].kind = "tool"
    /\ Len(mounted_instances) = 2 /\ Len(calls[c].val) = 3
    /\ \E i, j \in 1..Len(calls[c].val) : calls[c].val[i].instance_id # calls[c].val[j].instance_id

\* C15: a get_status() call never raises: it returns a report in which
\* every prefix mounted from its start to its end has exactly one entry,
\* each entry either healthy with its three counts or unhealthy with the
\* captured error.
C15_StatusNeverRaises ==
  [][\A c \in Calls :
       (Finishes(c) /\ calls'[c].op = "status")
       => /\ calls'[c].tag = "status"
          /\ \A p \in calls'[c].seen \cap MountedPrefixes :
               Cardinality({j \in 1..Len(calls'[c].val) : calls'[c].val[j].prefix = p}) = 1
          /\ \A e \in Range(calls'[c].val) :
               \/ e.status = "healthy" /\ Len(e.counts) = 3
               \/ e.status = "unhealthy" /\ e.error # "none"]_vars

\* step of caller c inside or at the start of a call
Steps(c) == calls'[c].pc # calls[c].pc \/ calls'[c].n # calls[c].n \/ calls'[c].op # calls[c].op

\* C16: after a sweep tick has completed, every session id that was in the
\* active-session map when the tick started and whose stored last-activity
\* was then older than the session timeout is out of the active-session
\* map and has no store record, and a get_session on it that follows the
\* tick returns not-found.
C16_SweepClosesIdleSessions ==
  /\ [](\A c \in Calls :
          (calls[c].op = "sweep" /\ calls[c].pc = "done" /\ calls[c].tag = "None")
          => \A k \in calls[c].gone : k \notin DOMAIN active_sessions /\ k \notin DOMAIN store)
  /\ [][\A c \in Calls :
          (/\ calls[c].op = "sweep" /\ calls[c].pc = "done" /\ calls[c].tag = "None"
           /\ calls'[c].op = "get_session" /\ calls'[c].key \in calls[c].gone)
          => calls'[c].pc = "done" /\ calls'[c].tag = "result" /\ calls'[c].val = <<>>]_vars
\* a tick has completed that found a session whose stored last-activity
\* was older than the timeout
C16_Witness ==
  \E c \in Calls :
    /\ calls[c].op = "sweep" /\ calls[c].pc = "done" /\ calls[c].tag = "None"
    /\ calls[c].gone # {}

\* C17: create_session never replaces an entry of the active-session map:
\* every id it registers is new, also for a second call with the same
\* instance id and the same transport object.
C17_SessionIdsUnique ==
  [][\A k \in DOMAIN active_sessions :
       k \in DOMAIN active_sessions' => active_sessions'[k] = active_sessions[k]]_vars

\* C18: get_session on an id that is not in the active-session map returns
\* None in the step it starts, without raising and without writing to the
\* store; on an id that is in the map it returns the session registered
\* under the id and the store's last-activity of the id is the current
\* time (if the store refuses the write, the store's error is raised and
\* nothing is written).
C18_GetSessionTouches ==
  /\ [][\A c \in Calls :
          (Starts(c) /\ calls'[c].op = "get_session"
             /\ calls'[c].key \notin DOMAIN active_sessions)
          => /\ calls'[c].pc = "done" /\ calls'[c].tag = "result" /\ calls'[c].val = <<>>
             /\ UNCHANGED <<store, active_sessions, sobj>>]_vars
  /\ [][\A c \in Calls :
          (Finishes(c) /\ calls'[c].op = "get_session"
             /\ calls'[c].key \in DOMAIN active_sessions)
          => \/ /\ calls'[c].tag = "result"
                /\ calls'[c].val = <<active_sessions[calls'[c].key]>>
                /\ calls'[c].key \in DOMAIN store'
                /\ store'[calls'[c].key].last_activity = now
             \/ /\ calls'[c].tag = "raise" /\ calls'[c].val = <<"StoreFailure">>
                /\ store' = store]_vars
\* get_session has returned a session some time after it was created and
\* the store holds the later time
C18_Witness ==
  \E c \in Calls :
    /\ calls[c].op = "get_session" /\ calls[c].pc = "done" /\ calls[c].tag = "result"
    /\ calls[c].val # <<>>
    /\ now > 0 /\ calls[c].key \in DOMAIN store /\ store[calls[c].key].last_activity = now

\* C19: a close_session call that returns leaves its id out of the
\* active-session map and out of the store, also when the session's close
\* raised; the only error it raises is a failure of the store's delete; a
\* call that finds its id in neither (closed before, or never created)
\* changes neither the map, nor the store, nor any session.
C19_CloseSessionIdempotent ==
  /\ [][\A c \in Calls :
          (Finishes(c) /\ calls'[c].op = "close_session")
          => \/ /\ calls'[c].tag = "None"
                /\ calls'[c].key \notin DOMAIN active_sessions'
                /\ calls'[c].key \notin DOMAIN store'
             \/ calls'[c].tag = "raise" /\ calls'[c].val = <<"StoreFailure">>]_vars
  /\ [][\A c \in Calls :
          (/\ Steps(c) /\ calls'[c].op = "close_session"
           /\ calls'[c].sess = 0
           /\ calls'[c].key \notin DOMAIN store)
          => UNCHANGED <<active_sessions, store, sobj>>]_vars
\* close_session has returned for a registered session whose close raised
C19_Witness ==
  \E c \in Calls :
    /\ calls[c].op = "close_session" /\ calls[c].pc = "done" /\ calls[c].tag = "None"
    /\ calls[c].sess # 0 /\ ~sobj[calls[c].sess].closed
    /\ calls[c].key \notin DOMAIN active_sessions /\ calls[c].key \notin DOMAIN store

\* C20: when the shutdown of the registry ends, by returning or by raising,
\* the active-session map is empty.
C20_ShutdownClosesAll ==
  [][\A c \in Calls :
       (Finishes(c) /\ calls'[c].op = "shutdown") => DOMAIN active_sessions' = {}]_vars

\* C21: a create_session call that fails (connect, initialize or a store
\* write) raises the error to its caller, and the id it was creating, which
\* neither the active-session map nor the store held when the call started,
\* is then in neither of them.
C21_FailedCreateLeavesNothing ==
  [][\A c \in Calls :
       (/\ Finishes(c) /\ calls'[c].op = "create_session"
        /\ calls'[c].tag # "result"
        /\ calls'[c].key \notin calls'[c].seen)
       => /\ calls'[c].tag = "raise"
          /\ calls'[c].key \notin DOMAIN active_sessions'
          /\ calls'[c].key \notin DOMAIN store']_vars

\* the name begins with the prefix followed by the separator
HasSegment(prefix, name) ==
  /\ Len(name) >= Len(prefix) + 1
  /\ \A i \in 1..Len(prefix) : name[i] = prefix[i]
  /\ name[Len(prefix) + 1] = "_"

\* C27: for every prefix and every tool or prompt name, stripping what
\* adding returned gives the name back; stripping a name that begins with
\* the prefix and the separator removes exactly that one segment (for
\* prefix p, 'p_p_x' becomes 'p_x'), and any other name is returned as is.
C27_StripAfterAddIsIdentity ==
  fn.kind \in {"tool", "prompt"}
  => /\ fn.pc = "stripped" => fn.val = fn.arg
     /\ (fn.pc = "bare" /\ HasSegment(fn.prefix, fn.arg))
          => fn.val = SubSeq(fn.arg, Len(fn.prefix) + 2, Len(fn.arg))
     /\ (fn.pc = "bare" /\ ~HasSegment(fn.prefix, fn.arg)) => fn.val = fn.arg
\* the prefix was added to a tool name that itself begins with the prefix
\* and the separator, and stripped again
C27_Witness ==
  /\ fn.kind = "tool" /\ fn.pc = "stripped"
  /\ fn.prefix = <<"a">> /\ fn.arg = <<"a", "_", "a">> /\ fn.val = fn.arg

\* a string of the form scheme://path
SchemeForm(uri) ==
  \E c \in 2..Len(uri) :
    /\ \A j \in 1..(c - 1) : uri[j] # ":"
    /\ uri[c] = ":" /\ Len(uri) >= c + 2 /\ uri[c + 1] = "/" /\ uri[c + 2] = "/"
\* the path of such a string begins with the prefix followed by '/'
PathBegins(uri, prefix) ==
  LET c == CHOOSE i \in 1..Len(uri) : uri[i] = ":" /\ \A j \in 1..(i - 1) : uri[j] # ":"
  IN /\ Len(uri) >= c + 2 + Len(prefix) + 1
     /\ \A i \in 1..Len(prefix) : uri[c + 2 + i] = prefix[i]
     /\ uri[c + 2 + Len(prefix) + 1] = "/"

\* C28: for every URI of the form scheme://path and every prefix, adding
\* the prefix does not raise and stripping what it returned gives the URI
\* back; stripping a URI whose path does not begin with the prefix and
\* '/' returns the URI unchanged.
C28_ResourceRoundTrip ==
  (fn.kind = "resource" /\ SchemeForm(fn.arg))
  => /\ fn.pc = "added" => fn.val # InvalidUri
     /\ fn.pc = "stripped" => fn.val = fn.arg
     /\ (fn.pc = "bare" /\ ~PathBegins(fn.arg, fn.prefix)) => fn.val = fn.arg

\* C22: no subprocess is launched while the channel holds the handle of a
\* running subprocess: start() on a running channel, called directly or by
\* connect_session for a channel it was given, launches nothing and leaves
\* the handle as it is.
C22_NoSecondLaunch ==
  [][(process # 0 /\ procs[process].state = "running")
       => (Len(procs') = Len(procs) /\ process' \in {process, 0})]_vars

\* step in which the stop() call or the connect_session scope of task u ends
Ends(u, op) == life'[u].op = op /\ life'[u].pc = "done" /\ life'[u] # life[u]

\* C23: when a stop() call ends, the channel's process reference is
\* cleared, whether the subprocess exited within the grace period, was
\* killed after it, or the termination signal failed; a stop() call on a
\* channel without a process reference ends at once and changes nothing;
\* every stop() call that waits ends.
C23_StopClearsAndEnds ==
  /\ [][\A u \in Users : Ends(u, "stop") => process' = 0]_vars
  /\ [][\A u \in Users :
          (/\ life'[u] # life[u] /\ life[u].pc \in {"idle", "done"} /\ life'[u].op = "stop"
           /\ process = 0)
          => /\ life'[u].pc = "done"
             /\ UNCHANGED <<process, procs, stdout_reader, stdout, response_handlers, fut,
                            message_queue>>]_vars
  /\ \A u \in Users :
       (life[u].op = "stop" /\ life[u].pc \in {"wait", "killwait"}) ~> (life[u].pc = "done")
\* a stop() call has ended after it had to kill the subprocess, and a later
\* stop() call on the stopped channel has ended as well
C23_Witness ==
  /\ process = 0
  /\ \E p \in 1..Len(procs) : procs[p].signal = "kill" /\ procs[p].state = "exited"
  /\ \E u, v \in Users :
       /\ u # v
       /\ life[u].op = "stop" /\ life[u].pc = "done" /\ life[u].tag = "stopped"
       /\ life[v].op = "stop" /\ life[v].pc = "done" /\ life[v].tag = "noop"

\* C24: when a connect_session scope of the transport bound to a channel
\* is left, stop() has run on the channel to its end and the channel's
\* process reference is cleared.
C24_ScopeExitStopsChannel ==
  [][\A u \in Users :
       Ends(u, "connect")
       => /\ process' = 0
          /\ life'[u].tag \in {"noop", "stopped", "raise", "cancelled"}]_vars
\* a scope was left after it had launched a subprocess, could not
\* establish the session and stopped the channel
C24_Witness ==
  \E u \in Users :
    /\ life[u].op = "connect" /\ life[u].pc = "done" /\ life[u].tag = "stopped"
    /\ process = 0
    /\ \E p \in 1..Len(procs) : procs[p].signal = "term" /\ procs[p].state = "exited"

\* C25: when the read loop takes a line that is not valid JSON from the
\* subprocess's stdout, exactly one raw-output event is queued, the
\* pending-request map is unchanged and the read loop keeps running.
C25_BadLineKeepsLoop ==
  [][(/\ stdout_reader = "running" /\ stdout # <<>>
      /\ Head(stdout).t \in {"nonjson", "badutf8"}
      /\ stdout' = Tail(stdout))
     => /\ message_queue' = Append(message_queue, "raw_output")
        /\ response_handlers' = response_handlers
        /\ stdout_reader' = "running"]_vars

\* C26: a pull of the event stream that finds the queue non-empty yields
\* the oldest queued event and removes it, a pull that finds it empty
\* yields a heartbeat and leaves it alone; events leave the queue at its
\* head only and enter it at its end only, so they come out in the order
\* they were emitted; every pull yields, whatever the subprocess does.
C26_StreamYieldsOldestOrHeartbeat ==
  /\ [][\A k \in Consumers :
          (stream[k].pc = "get" /\ stream'[k].pc = "yielded")
          => IF message_queue # <<>>
             THEN /\ stream'[k].out = Head(message_queue)
                  /\ message_queue' = Tail(message_queue)
             ELSE /\ stream'[k].out = Heartbeat
                  /\ message_queue' = message_queue]_vars
  /\ [][\/ message_queue' = message_queue
        \/ message_queue # <<>> /\ message_queue' = Tail(message_queue)
        \/ \E e \in {"raw_output", "notification"} :
             message_queue' = Append(message_queue, e)]_vars
  /\ \A k \in Consumers : (stream[k].pc = "get") ~> (stream[k].pc = "yielded")
\* one consumer was given a heartbeat, another the older of two different
\* events, and the younger one is still queued
C26_Witness ==
  \E k, j \in Consumers :
    /\ stream[k].pc = "yielded" /\ stream[k].out = "raw_output"
    /\ stream[j].pc = "yielded" /\ stream[j].out = Heartbeat
    /\ message_queue = <<"notification">>

\* C29: whenever no send_request call is in flight, the pending-request
\* map is empty: the entry a call registers is removed by the time the call
\* ends, whether it ends with a response, a timeout, a write error or the
\* cancellation of the calling task, and whether or not the channel was
\* stopped meanwhile.
C29_NoCallNoPending ==
  (\A r \in Callers : req[r].pc \in {"idle", "done"}) => response_handlers = {}

\* C30: the step in which a call routed through a mount is handed the
\* mount's session leaves the session's record in the store with the
\* present clock reading as its last-activity timestamp; and the sweep
\* closes no session of a mount that is used every UseInterval seconds.
C30_MountUseKeepsSessionAlive ==
  /\ [][\A c \in Calls :
          (calls[c].pc # "sess" /\ calls'[c].pc = "sess")
          => LET key == mobj'[calls'[c].mid].session_id
             IN key \in DOMAIN store' /\ store'[key].last_activity = now]_vars
  /\ [][\A k \in DOMAIN active_sessions :
          (\E c \in Calls : calls'[c].op = "sweep")
          => k \in DOMAIN active_sessions']_vars

\* C31: once the block under run() of the Session Registry has ended, the
\* periodic sweep loop is cancelled and the exit of the run() scope
\* completes.
C31_RunExitCompletes ==
  (run.scope = "finally") ~> (run.scope = "exited" /\ run.loop = "cancelled")

\* C34: an error raised during a tick of the periodic sweep is caught and
\* leaves the loop alive; unless the loop is cancelled it starts another
\* tick; and a tick that completes leaves none of the sessions that were
\* idle when it started in the active-session map or in the store.
C34_SweepLoopSurvivesErrors ==
  /\ [][\A c \in Calls :
          (calls[c].op = "sweep" /\ calls[c].tag = "raise" /\ calls'[c] # calls[c])
          => run'.loop = "alive" \/ run'.loop = "cancelled"]_vars
  /\ \A c \in Calls :
       (calls[c].op = "sweep" /\ calls[c].tag = "raise" /\ run.loop = "alive")
       ~> (\/ calls[c].op = "sweep" /\ calls[c].tag \notin {"raise", "logged"}
           \/ run.loop = "cancelled")
  /\ [](\A c \in Calls :
          (calls[c].op = "sweep" /\ calls[c].pc = "done" /\ calls[c].tag = "None")
          => \A k \in calls[c].gone : k \notin DOMAIN active_sessions)
\* inside run(), a tick has completed that closed the last session, after
\* an earlier tick had failed in the store's delete and left an orphan
\* record behind
C34_Witness ==
  /\ run.scope = "entered" /\ run.loop = "alive"
  /\ calls["c2"].op = "sweep" /\ calls["c2"].pc = "done" /\ calls["c2"].tag = "None"
  /\ calls["c2"].seen # {}
  /\ active_sessions = <<>>
  /\ \E k \in DOMAIN store : k \notin calls["c2"].seen

ServedFromCache(c) ==
  /\ Starts(c) /\ calls'[c].op = "list"
  /\ calls'[c].pc = "done" /\ calls'[c].tag = "list" /\ calls'[c].idx = 0

\* C33 as stated: a list_* call that finds a snapshot of its kind stored
\* no more than the cache lifetime ago returns that snapshot in the step it
\* starts, without a session being created or queried; and no list_* call
\* is answered from a snapshot stored more than the cache lifetime ago.
C33_FreshSnapshotServed ==
  /\ [][\A c \in Calls :
          (/\ Starts(c) /\ calls'[c].op = "list"
           /\ cache[calls'[c].kind].set
           /\ now - cache[calls'[c].kind].at <= CacheDuration)
          => /\ ServedFromCache(c)
             /\ calls'[c].val = cache[calls'[c].kind].items]_vars
  /\ [][\A c \in Calls :
          (ServedFromCache(c) /\ cache[calls'[c].kind].set)
          => now - cache[calls'[c].kind].at <= CacheDuration]_vars

\* C33, amended: a list_* call that finds the shared cache expiry set and
\* not passed and a snapshot of its kind stored returns that snapshot in
\* the step it starts, without a session being created or queried; the
\* expiry is never more than the cache lifetime ahead; and no list_* call
\* is answered from a snapshot stored more than the cache lifetime ago.
C33_UnexpiredSnapshotServed ==
  /\ [][\A c \in Calls :
          (/\ Starts(c) /\ calls'[c].op = "list"
           /\ cache[calls'[c].kind].set
           /\ cache_expiry # NoTime /\ now <= cache_expiry)
          => /\ ServedFromCache(c)
             /\ calls'[c].val = cache[calls'[c].kind].items
             /\ UNCHANGED <<sobj, store, active_sessions, cache, cache_expiry>>]_vars
  /\ [](cache_expiry # NoTime => cache_expiry <= now + CacheDuration)
  /\ [][\A c \in Calls :
          (ServedFromCache(c) /\ cache[calls'[c].kind].set)
          => now - cache[calls'[c].kind].at <= CacheDuration]_vars
\* a listing was answered from a snapshot stored UseInterval seconds
\* earlier
C33_Witness ==
  \E c \in Calls :
    /\ calls[c].op = "list" /\ calls[c].pc = "done" /\ calls[c].tag = "list"
    /\ calls[c].idx = 0 /\ calls[c].val # <<>>
    /\ cache[calls[c].kind].set /\ cache[calls[c].kind].items = calls[c].val
    /\ cache[calls[c].kind].at = now - UseInterval

\* C35: a subscriber whose callback raises or never completes is dropped
\* from the subscriber list and blocks nothing: the loop over the
\* subscribers finishes (every other subscriber is handed the event), the
\* reader reads every later line, and a response line for a pending request
\* resolves it.
BadCallback(s) ==
  /\ event_subscribers.emit.pc = "awaiting"
  /\ event_subscribers.emit.will \in {"raise", "never"}
  /\ event_subscribers.emit.copy[event_subscribers.emit.idx] = s
Subscribed(s) ==
  \E i \in 1..Len(event_subscribers.list) : event_subscribers.list[i] = s
ResponseWaiting(h) ==
  /\ stdout_reader = "running"
  /\ h \in response_handlers
  /\ \E i \in 1..Len(stdout) : stdout[i].t = "resp" /\ stdout[i].id = h
C35_BadSubscriberDroppedNothingBlocked ==
  /\ \A s \in Subscribers : BadCallback(s) ~> ~Subscribed(s)
  /\ (event_subscribers.emit.pc # "idle") ~> (event_subscribers.emit.pc = "idle")
  /\ (stdout_reader = "running" /\ stdout # <<>>) ~> (stdout = <<>>)
  /\ \A h \in 1..MaxReq : ResponseWaiting(h) ~> (h \notin response_handlers)

\* C36: a request resolved by a stdout line gets a response in which exactly
\* one of result and error is set, whatever members the line carried.
C36_ExactlyOneOfResultError ==
  \A h \in 1..MaxReq :
    fut[h].state = "result" => (fut[h].resp.result # fut[h].resp.error)

\* C37: a call_tool that was forwarded to the session of its mount appends
\* exactly one record to the log of that instance when it ends, with success
\* true when the session call returned and false when it raised.  (A call
\* whose record could not be written because the sink failed is left aside.)
ForwardedEnds(c) ==
  /\ calls[c].op = "call" /\ calls[c].kind = "tool"
  /\ calls[c].pc # "done" /\ calls'[c].pc = "done"
  /\ calls'[c].sres = "raise" \/ calls'[c].tag = "result"
C37_ForwardedCallLogged ==
  [][\A c \in Calls :
       ForwardedEnds(c) =>
         logs' = Append(logs, [LogEntry(calls[c]) EXCEPT !.success = (calls'[c].sres = "ok")])]_vars

\* C38: the sweep closes only idle sessions: a session that get_session
\* returned less than the session timeout before a sweep tick started, and
\* that nobody closed, is not taken out of the active-session map by that
\* tick (its record was written with its expiry when it was created).
\* Ticks during which the clock advanced are left aside.
RecentlyGot(k, t) ==
  /\ calls["c1"].op = "get_session" /\ calls["c1"].key = k
  /\ calls["c1"].pc = "done" /\ calls["c1"].tag = "result" /\ calls["c1"].val # <<>>
  /\ calls["c1"].current_time <= t
  /\ t - calls["c1"].current_time < SessionTimeout
C38_SweepSparesRecentlyUsed ==
  [][\A k \in SessionKeys :
       (/\ k \in DOMAIN active_sessions /\ k \notin DOMAIN active_sessions'
        /\ calls'["c2"].op = "sweep" /\ calls'["c2"].current_time = now)
       => ~RecentlyGot(k, calls'["c2"].current_time)]_vars

\* C39: a session cached by a MountedInstance is registered under the
\* mount's session id in the active-session map and has not been closed;
\* and no call routed through a mount is sent to a closed session.
CachedSessionLive(m) ==
  /\ mobj[m].session_id \in DOMAIN active_sessions
  /\ active_sessions[mobj[m].session_id] = mobj[m].session
  /\ ~sobj[mobj[m].session].closed
C39_CachedSessionIsLive ==
  /\ [](\A m \in 1..Len(mobj) : mobj[m].session # 0 => CachedSessionLive(m))
  /\ [][\A c \in Calls :
          (calls[c].pc # "sess" /\ calls'[c].pc = "sess") => ~sobj'[calls'[c].sess].closed]_vars

\* C40: unmount(p) touches only the mount under p: at every step of an
\* unmount, each other mount that is still mounted keeps its MountedInstance,
\* its session stays (or stays absent) in the active-session map, its store
\* record is unchanged and its session is not closed, also when both mounts
\* are of the same instance through the same transport object.
OtherMountKept(m) ==
  LET k == mobj[m].session_id
  IN /\ mobj'[m] = mobj[m]
     /\ k # NoKey =>
          /\ (k \in DOMAIN active_sessions) = (k \in DOMAIN active_sessions')
          /\ (k \in DOMAIN store) = (k \in DOMAIN store')
          /\ k \in DOMAIN store => store'[k] = store[k]
     /\ mobj[m].session # 0 =>
          sobj'[mobj[m].session].closed = sobj[mobj[m].session].closed
C40_UnmountLeavesOtherMounts ==
  [][\A c \in Calls :
       (calls'[c].op = "unmount" /\ calls'[c] # calls[c])
       => \A m \in 1..Len(mobj) :
            (m # calls'[c].mid /\ ~mobj[m].removed) => OtherMountKept(m)]_vars

====
